---- MODULE Spec2Model ----
(***************************************************************************)
(* Calendar integration layer: Create / Update / List / Search handlers,   *)
(* the similarity checker they rely on, and the remote calendar service as *)
(* a nondeterministic collaborator.  Every handler is cut at its awaits:   *)
(* one action per suspension point, the synchronous code between two       *)
(* awaits belongs to the action that resumes it.                           *)
(*                                                                         *)
(* Times are whole hours since an epoch, a calendar day is DayLen hours.   *)
(* Similarity scores are percentages (0.95 is 95).                         *)
(***************************************************************************)
EXTENDS Integers, Sequences, FiniteSets, TLC

VARIABLES cr, up, ls, se, lib, sc, post

vars == <<cr, up, ls, se, lib, sc, post>>

\* ---------------------------------------------------------------- bounds
MaxExisting == 1      \* events already on the target calendar (Create)
MaxAccounts == 2      \* authenticated accounts
MaxCals == 2          \* calendars known to the service
MaxHour == 3          \* latest hour of a day at which a compared event ends
MaxAttendees == 2     \* attendees on an event, and in an Update request
MaxInputLen == 5      \* characters of a short string given to sanitizeEventId
MaxSends == 2         \* sendMessage calls that pass the guard
MaxChunks == 1        \* chunks one chat stream delivers
MaxCommits == 1       \* commit mutations started
MaxPostEvents == 2    \* events in the body of one POST /api/calendar

\* ------------------------------------------------------ program constants
DEFAULT_SIMILARITY_THRESHOLD == 70
DEFAULT_DUPLICATE_THRESHOLD == 70
BLOCKING == 90
MinIdLen == 5
MaxIdLen == 1024
DayLen == 24

\* ------------------------------------------------------------ sequences
RECURSIVE SeqToSet(_)
SeqToSet(s) == IF s = <<>> THEN {} ELSE {Head(s)} \cup SeqToSet(Tail(s))

RECURSIVE CountIf(_, _)
CountIf(s, S) ==
    IF s = <<>> THEN 0
    ELSE (IF Head(s) \in S THEN 1 ELSE 0) + CountIf(Tail(s), S)

Min2(a, b) == IF a < b THEN a ELSE b

\* ------------------------------------------------ the external call log
\* One entry per call issued to the calendar service; outcome is "pending"
\* while the call is in flight.
NoArg == [id |-> <<>>, until |-> 0, start |-> 0, end |-> 0,
          checkDuplicates |-> FALSE]

Call(api, target, arg) ==
    [api |-> api, target |-> target, arg |-> arg, outcome |-> "pending"]

Issue(calls, api, target, arg) == Append(calls, Call(api, target, arg))

Complete(calls, outcome) ==
    [calls EXCEPT ![Len(calls)] = [@ EXCEPT !.outcome = outcome]]

CallsOf(calls, api) == SelectSeq(calls, LAMBDA c : c.api = api)

Mutating(calls) ==
    SelectSeq(calls, LAMBDA c : c.api \in {"events.patch", "events.insert"})

\* ------------------------------------------------------------- events
\* summary: the title as its words (<<>> is a missing title);
\* sKind/eKind: which field of start/end is set ("dateTime", "date", "none").
Ev(id, summary, sKind, eKind, s, e, status) ==
    [id |-> id, summary |-> summary, sKind |-> sKind, eKind |-> eKind,
     start |-> s, end |-> e, status |-> status]

Timed(id, summary, s, e) == Ev(id, summary, "dateTime", "dateTime", s, e, "confirmed")
AllDay(id, summary, day) ==
    Ev(id, summary, "date", "date", day * DayLen, (day + 1) * DayLen, "confirmed")

\* Words: none is a proper substring of another, so String.includes on the
\* joined title is containment of a contiguous run of words.
Lower(w) ==
    CASE w = "Team" -> "team"
      [] w = "Sync" -> "sync"
      [] OTHER -> w

WordLen(w) ==
    CASE w = "team" -> 4
      [] w = "sync" -> 4
      [] w = "lunch" -> 5
      [] w = "mtg" -> 3
      [] OTHER -> 4

Normalize(t) == [i \in 1..Len(t) |-> Lower(t[i])]

Includes(t1, t2) ==
    \E k \in 0..(Len(t1) - Len(t2)) :
        \A i \in 1..Len(t2) : t1[k + i] = t2[i]

SignificantWords(t) == SelectSeq(t, LAMBDA w : WordLen(w) > 3)

titlesMatch(title1, title2) ==
    IF title1 = <<>> \/ title2 = <<>>
    THEN [exact |-> FALSE, similar |-> FALSE]
    ELSE LET t1 == Normalize(title1)
             t2 == Normalize(title2)
             words1 == SignificantWords(t1)
             words2 == SignificantWords(t2)
             common == CountIf(words1, SeqToSet(words2))
         IN  IF t1 = t2 THEN [exact |-> TRUE, similar |-> TRUE]
             ELSE IF Includes(t1, t2) \/ Includes(t2, t1)
                  THEN [exact |-> FALSE, similar |-> TRUE]
             ELSE IF Len(words1) > 0 /\ Len(words2) > 0
                  THEN [exact |-> FALSE,
                        similar |-> 2 * common >= Min2(Len(words1), Len(words2))]
             ELSE [exact |-> FALSE, similar |-> FALSE]

isAllDayEvent(e) == e.sKind = "date"

\* Faulty variant of HasEventTime: an event counts as timeless only when
\* both its start and its end are missing.
HasEventTime_either(e) == e.sKind # "none" \/ e.eKind # "none"

HasEventTime(e) == e.sKind # "none" /\ e.eKind # "none"

\* Faulty variants of eventsOverlap: the second event must start strictly
\* inside the first; the interval ends are taken as included.
eventsOverlap_startsInside(e1, e2) ==
    IF ~HasEventTime(e1) \/ ~HasEventTime(e2) THEN FALSE
    ELSE e1.start < e2.start /\ e2.start < e1.end

eventsOverlap_closed(e1, e2) ==
    IF ~HasEventTime(e1) \/ ~HasEventTime(e2) THEN FALSE
    ELSE e1.start <= e2.end /\ e2.start <= e1.end

eventsOverlap(e1, e2) ==
    IF ~HasEventTime(e1) \/ ~HasEventTime(e2) THEN FALSE
    ELSE e1.start < e2.end /\ e2.start < e1.end

eventsOnSameDay(e1, e2) ==
    IF ~HasEventTime(e1) \/ ~HasEventTime(e2) THEN FALSE
    ELSE (e1.start \div DayLen) = (e2.start \div DayLen)

\* Faulty variants of checkSimilarity: the all-day/timed comparison is
\* skipped; the "similar title" rule is tried before the "exact title" one.
checkSimilarity_noKindCheck(e1, e2) ==
    LET titleMatch == titlesMatch(e1.summary, e2.summary)
        timeOverlap == eventsOverlap(e1, e2)
        sameDay == eventsOnSameDay(e1, e2)
    IN  IF titleMatch.exact /\ timeOverlap THEN 95
        ELSE IF titleMatch.similar /\ timeOverlap THEN 70
        ELSE IF titleMatch.exact /\ sameDay THEN 60
        ELSE IF titleMatch.exact /\ ~sameDay THEN 40
        ELSE IF titleMatch.similar THEN 30
        ELSE 10

checkSimilarity_similarFirst(e1, e2) ==
    IF isAllDayEvent(e1) # isAllDayEvent(e2) THEN 20
    ELSE LET titleMatch == titlesMatch(e1.summary, e2.summary)
             timeOverlap == eventsOverlap(e1, e2)
             sameDay == eventsOnSameDay(e1, e2)
         IN  IF titleMatch.similar /\ timeOverlap THEN 70
             ELSE IF titleMatch.exact /\ timeOverlap THEN 95
             ELSE IF titleMatch.exact /\ sameDay THEN 60
             ELSE IF titleMatch.exact /\ ~sameDay THEN 40
             ELSE IF titleMatch.similar THEN 30
             ELSE 10

checkSimilarity(e1, e2) ==
    IF isAllDayEvent(e1) # isAllDayEvent(e2) THEN 20
    ELSE LET titleMatch == titlesMatch(e1.summary, e2.summary)
             timeOverlap == eventsOverlap(e1, e2)
             sameDay == eventsOnSameDay(e1, e2)
         IN  IF titleMatch.exact /\ timeOverlap THEN 95
             ELSE IF titleMatch.similar /\ timeOverlap THEN 70
             ELSE IF titleMatch.exact /\ sameDay THEN 60
             ELSE IF titleMatch.exact /\ ~sameDay THEN 40
             ELSE IF titleMatch.similar THEN 30
             ELSE 10

Max2(a, b) == IF a > b THEN a ELSE b

\* Faulty variant of calculateOverlapDuration: the overlap is taken to end
\* with the first event.
calculateOverlapDuration_endOfFirst(e1, e2) ==
    IF ~HasEventTime(e1) \/ ~HasEventTime(e2) THEN 0
    ELSE Max2(0, e1.end - Max2(e1.start, e2.start))

calculateOverlapDuration(e1, e2) ==
    IF ~HasEventTime(e1) \/ ~HasEventTime(e2) THEN 0
    ELSE LET overlapStart == Max2(e1.start, e2.start)
             overlapEnd == Min2(e1.end, e2.end)
         IN  Max2(0, overlapEnd - overlapStart)

\* threshold: <<>> when the caller passes none, <<t>> otherwise; a zero is
\* falsy and gives way to the default like a missing one.
isDuplicate(e1, e2, threshold) ==
    LET similarity == checkSimilarity(e1, e2)
        given == IF threshold = <<>> THEN 0 ELSE threshold[1]
    IN  similarity >= (IF given # 0 THEN given ELSE DEFAULT_SIMILARITY_THRESHOLD)

\* Math.round of the non-negative quotient n / d.
RoundDiv(n, d) == (2 * n + d) \div (2 * d)

NoOverlap ==
    [hasOverlap |-> FALSE, duration |-> 0, percentage |-> 0,
     startTime |-> 0, endTime |-> 0]

\* duration is the overlap handed to formatDuration, whose wording is not
\* modelled; the fields of a result without overlap are left unset (0).
analyzeOverlap(e1, e2) ==
    IF ~eventsOverlap(e1, e2) THEN NoOverlap
    ELSE IF ~HasEventTime(e1) \/ ~HasEventTime(e2) THEN NoOverlap
    ELSE LET overlapDuration == calculateOverlapDuration(e1, e2)
             event1Duration == e1.end - e1.start
         IN  [hasOverlap |-> TRUE,
              duration |-> overlapDuration,
              percentage |-> RoundDiv(overlapDuration * 100, event1Duration),
              startTime |-> Max2(e1.start, e2.start),
              endTime |-> Min2(e1.end, e2.end)]

\* Faulty variant of findOverlappingEvents: cancelled events are kept.
findOverlappingEvents_keepsCancelled(events, targetEvent) ==
    SelectSeq(events, LAMBDA event :
        /\ event.id # targetEvent.id
        /\ eventsOverlap(targetEvent, event))

findOverlappingEvents(events, targetEvent) ==
    SelectSeq(events, LAMBDA event :
        /\ event.id # targetEvent.id
        /\ event.status # "cancelled"
        /\ eventsOverlap(targetEvent, event))


\* --------------------------------------------------- event id validation
ValidIdChars ==
    {"a", "b", "c", "d", "e", "f", "g", "h", "i", "j", "k", "l", "m", "n",
     "o", "p", "q", "r", "s", "t", "u", "v",
     "0", "1", "2", "3", "4", "5", "6", "7", "8", "9"}

MatchesBase32Hex(eventId) ==
    Len(eventId) > 0 /\ \A i \in 1..Len(eventId) : eventId[i] \in ValidIdChars

\* Faulty variant: the character set is not checked.
isValidEventId_lengthOnly(eventId) ==
    ~(Len(eventId) < MinIdLen \/ Len(eventId) > MaxIdLen)

isValidEventId(eventId) ==
    IF Len(eventId) < MinIdLen \/ Len(eventId) > MaxIdLen THEN FALSE
    ELSE MatchesBase32Hex(eventId)

\* validateEventId: TRUE when it throws "Invalid event ID: ..."
validateEventIdThrows(eventId) == ~isValidEventId(eventId)

Repeat(ch, n) == [i \in 1..n |-> ch]

\* Characters outside a-v0-9 that a caller may put into an id: w-z, which
\* the sanitizer maps back into a-d, upper-case letters, punctuation and
\* white space.
ShiftedChars == {"w", "x", "y", "z"}

\* String.prototype.toLowerCase on one character.
toLowerCaseChar(char) ==
    CASE char = "A" -> "a"
      [] char = "V" -> "v"
      [] char = "W" -> "w"
      [] char = "Z" -> "z"
      [] OTHER -> char

\* toBase32Hex: w->a, x->b, y->c, z->d, anything else becomes "".
toBase32Hex(char) ==
    CASE char = "w" -> "a"
      [] char = "x" -> "b"
      [] char = "y" -> "c"
      [] char = "z" -> "d"
      [] OTHER -> ""

\* str.replace(/[w-z]/g, toBase32Hex)
convertToBase32Hex(str) ==
    [i \in 1..Len(str) |->
        IF str[i] \in ShiftedChars THEN toBase32Hex(str[i]) ELSE str[i]]

\* Number.prototype.toString(32): digit values 0..31 are written 0-9a-v.
Base32Digits ==
    <<"0", "1", "2", "3", "4", "5", "6", "7", "8", "9",
      "a", "b", "c", "d", "e", "f", "g", "h", "i", "j", "k", "l", "m", "n",
      "o", "p", "q", "r", "s", "t", "u", "v">>

toString32(digits) == [i \in 1..Len(digits) |-> Base32Digits[digits[i] + 1]]

\* sanitized.replace(/[^a-v0-9]/g, toBase32Hex), line 80
ReplaceInvalid(str) ==
    SelectSeq([i \in 1..Len(str) |->
                  IF str[i] \in ValidIdChars THEN str[i]
                  ELSE toBase32Hex(str[i])],
              LAMBDA c : c # "")

\* sanitized.replace(/\s+/g, ''), line 83
RemoveSpaces(str) == SelectSeq(str, LAMBDA c : c # " ")

\* substring(0, n) and slice(0, n)
Substring(str, n) == SubSeq(str, 1, Min2(Len(str), n))

\* lines 86-95: a base32hex timestamp pads an id that is too short.
EnsureMinLength(sanitized, now) ==
    IF Len(sanitized) < MinIdLen
    THEN LET timestamp == convertToBase32Hex(toString32(now))
         IN  IF Len(sanitized) = 0
             THEN Substring(<<"e", "v", "e", "n", "t">> \o timestamp, 26)
             ELSE Substring(sanitized \o timestamp, 26)
    ELSE sanitized

\* Faulty variant: an id that is too long is left as it is.
EnsureMaxLength_keepsAll(sanitized) == sanitized

\* lines 98-100
EnsureMaxLength(sanitized) ==
    IF Len(sanitized) > MaxIdLen THEN Substring(sanitized, MaxIdLen)
    ELSE sanitized

\* sanitized.replace(/[^a-v0-9]/g, ''), line 103
StripInvalid(str) == SelectSeq(str, LAMBDA c : c \in ValidIdChars)

\* lines 106-109
DefaultIfShort(sanitized, now) ==
    IF Len(sanitized) < MinIdLen
    THEN Substring(<<"e", "v">> \o convertToBase32Hex(toString32(now)), 26)
    ELSE sanitized

\* now1, now2: what Date.now() gives at line 88 and at line 107, as the
\* base-32 digits of the millisecond count.
sanitizeEventId(input, now1, now2) ==
    LET lowered == [i \in 1..Len(input) |-> toLowerCaseChar(input[i])]
        replaced == RemoveSpaces(ReplaceInvalid(lowered))
        padded == EnsureMinLength(replaced, now1)
        cut == EnsureMaxLength(padded)
    IN  DefaultIfShort(StripInvalid(cut), now2)

\* ========================================================== Create handler
\* Request inputs.  EventIdInputs: too short, valid, a character outside
\* a-v0-9, the empty string, exactly MaxIdLen, MaxIdLen + 1.
EventIdInputs ==
    {<<>>, <<"a", "b", "c">>, <<"a", "b", "c", "d", "e">>,
     <<"a", "b", "c", "d", "w">>, Repeat("a", MaxIdLen), Repeat("a", MaxIdLen + 1)}

EventTypes == {"default", "focusTime", "outOfOffice", "workingLocation"}
Tri == {"absent", "true", "false"}
ThresholdInputs == {0, 96}          \* 0: duplicateSimilarityThreshold not given
\* "me@example.com" is the account's own address, the identifier of its
\* primary calendar; the other two are secondary calendars of the account.
ResolvedCalendarIds ==
    {"primary", "me@example.com", "work", "team@group.calendar.google.com"}

\* resolvedCalendarId.includes('@')
HasAt(calendarId) ==
    calendarId \in {"me@example.com", "team@group.calendar.google.com"}

Candidates == {Timed(0, <<"Team", "Sync">>, 10, 11)}

ExistingPool ==
    {Timed(0, <<"team", "sync">>, 10, 11),
     Ev(0, <<"team", "sync">>, "dateTime", "dateTime", 10, 11, "cancelled"),
     Timed(0, <<"sync">>, 10, 11),
     Timed(0, <<"team", "sync">>, 12, 13),
     Timed(0, <<"team", "sync">>, 34, 35),
     Timed(0, <<"lunch">>, 10, 11),
     AllDay(0, <<"team", "sync">>, 0)}

\* The events already on a calendar, identified 1..n in list order.
ExistingLists ==
    UNION {[1..n -> ExistingPool] : n \in 0..MaxExisting}

WithIds(evs) == [i \in 1..Len(evs) |-> [evs[i] EXCEPT !.id = i]]

NoResult == [status |-> "none", err |-> "", duplicates |-> <<>>,
             eventId |-> <<>>, calendarId |-> "", accountId |-> ""]

Failure(err) == [NoResult EXCEPT !.status = "error", !.err = err]

CrIdle ==
    [pc |-> "idle", idGiven |-> FALSE, eventId |-> <<>>, eventType |-> "default",
     wlProps |-> FALSE, allowDuplicates |-> "absent", threshold |-> 0,
     hasTimeZone |-> FALSE, calendarId |-> "", cand |-> Timed(0, <<>>, 0, 1),
     existing |-> <<>>, duplicates |-> <<>>, calls |-> <<>>,
     insertOutcome |-> "none", result |-> NoResult]

\* ConflictDetectionService.checkConflicts, duplicate part: the events of
\* the target calendar that are not cancelled, are not the candidate itself
\* and whose similarity reaches the threshold, each with its score.
DuplicateEntry(cand, e) ==
    [id |-> e.id, title |-> e.summary, similarity |-> checkSimilarity(cand, e)]

DetectDuplicates(cand, existing, threshold) ==
    LET live == SelectSeq(existing, LAMBDA e :
                    e.status # "cancelled" /\ e.id # cand.id
                    /\ checkSimilarity(cand, e) >= threshold)
    IN  [i \in 1..Len(live) |-> DuplicateEntry(cand, live[i])]

EffectiveThreshold(threshold) ==
    IF threshold # 0 THEN threshold ELSE DEFAULT_DUPLICATE_THRESHOLD

\* conflicts.duplicates.find(dup => dup.event.similarity >= BLOCKING)
ExactDuplicates(duplicates) ==
    SelectSeq(duplicates, LAMBDA d : d.similarity >= BLOCKING)

\* Faulty variant: only an explicit allowDuplicates = false blocks.
BlocksCreation_absentAllows(duplicates, allowDuplicates) ==
    ExactDuplicates(duplicates) # <<>> /\ allowDuplicates = "false"

\* Faulty variant: the override flag is ignored.
BlocksCreation_noOverride(duplicates, allowDuplicates) ==
    ExactDuplicates(duplicates) # <<>>

BlocksCreation(duplicates, allowDuplicates) ==
    ExactDuplicates(duplicates) # <<>> /\ allowDuplicates # "true"

PrimaryRequired(eventType, calendarId) ==
    /\ eventType \in {"outOfOffice", "workingLocation"}
    /\ calendarId # "primary" /\ ~HasAt(calendarId)

\* createEvent up to the request body: the error thrown before
\* events.insert is issued, "" when the body is built.
BodyError(c) ==
    IF c.eventType = "workingLocation" /\ ~c.wlProps
    THEN "WorkingLocationPropertiesRequired" ELSE ""

IdError(c) ==
    IF Len(c.eventId) > 0 /\ validateEventIdThrows(c.eventId)
    THEN "InvalidEventId" ELSE ""

\* createEvent from the request body on: build it, then issue events.insert.
CrBuildAndInsert(c) ==
    IF BodyError(c) # ""
    THEN [c EXCEPT !.pc = "done", !.result = Failure(BodyError(c))]
    ELSE [c EXCEPT !.pc = "insert",
                   !.calls = Issue(c.calls, "events.insert", c.calendarId,
                                  [NoArg EXCEPT !.id = c.eventId])]

\* createEvent from its first line: validate the id, resolve the timezone.
CrCreateEvent(c) ==
    IF IdError(c) # ""
    THEN [c EXCEPT !.pc = "done", !.result = Failure(IdError(c))]
    ELSE IF ~c.hasTimeZone
         THEN [c EXCEPT !.pc = "tz2",
                        !.calls = Issue(c.calls, "calendars.get", c.calendarId, NoArg)]
         ELSE CrBuildAndInsert(c)

\* runTool after checkConflicts has returned its duplicates.
CrAfterDetect(c) ==
    IF BlocksCreation(c.duplicates, c.allowDuplicates)
    THEN [c EXCEPT !.pc = "done", !.result = Failure("DuplicateEvent")]
    ELSE CrCreateEvent(c)

CrIssueDetect(c) ==
    [c EXCEPT !.pc = "detect",
              !.calls = Issue(c.calls, "events.list", c.calendarId,
                              [NoArg EXCEPT !.checkDuplicates = TRUE])]

AllIdle ==
    /\ cr.pc = "idle" /\ up.pc = "idle" /\ ls.pc = "idle" /\ se.pc = "idle"
    /\ lib.fn = "none"

\* runTool, lines 21-45: account and calendar are resolved, the primary
\* calendar requirement is checked, the timezone is looked up unless given.
CrStart ==
    /\ AllIdle
    /\ \E idGiven \in BOOLEAN, id \in EventIdInputs, et \in EventTypes,
          wl \in BOOLEAN, allow \in Tri, thr \in ThresholdInputs,
          tz \in BOOLEAN, cal \in ResolvedCalendarIds, cand \in Candidates,
          ex \in ExistingLists :
        /\ (~idGiven => id = <<>>)
        /\ LET c == [CrIdle EXCEPT !.idGiven = idGiven, !.eventId = id,
                        !.eventType = et, !.wlProps = wl,
                        !.allowDuplicates = allow, !.threshold = thr,
                        !.hasTimeZone = tz, !.calendarId = cal, !.cand = cand,
                        !.existing = WithIds(ex)]
           IN  cr' = IF PrimaryRequired(et, cal)
                     THEN [c EXCEPT !.pc = "done", !.result = Failure("PrimaryCalendarOnly")]
                     ELSE IF ~tz
                          THEN [c EXCEPT !.pc = "tz",
                                   !.calls = Issue(c.calls, "calendars.get", cal, NoArg)]
                          ELSE CrIssueDetect(c)
    /\ UNCHANGED <<up, ls, se, lib, sc, post>>

CrTimezoneDone ==
    /\ cr.pc = "tz"
    /\ cr' = CrIssueDetect([cr EXCEPT !.calls = Complete(cr.calls, "ok")])
    /\ UNCHANGED <<up, ls, se, lib, sc, post>>

\* checkConflicts returns, or the fetch of the target calendar fails.
CrDetectDone ==
    /\ cr.pc = "detect"
    /\ \E ok \in BOOLEAN :
        cr' = IF ok
              THEN CrAfterDetect(
                     [cr EXCEPT !.calls = Complete(cr.calls, "ok"),
                                !.duplicates = DetectDuplicates(cr.cand, cr.existing,
                                                   EffectiveThreshold(cr.threshold))])
              ELSE [cr EXCEPT !.pc = "done", !.calls = Complete(cr.calls, "fail"),
                              !.result = Failure("ConflictCheckFailed")]
    /\ UNCHANGED <<up, ls, se, lib, sc, post>>

CrTimezone2Done ==
    /\ cr.pc = "tz2"
    /\ cr' = CrBuildAndInsert([cr EXCEPT !.calls = Complete(cr.calls, "ok")])
    /\ UNCHANGED <<up, ls, se, lib, sc, post>>

\* How events.insert settles: with the event, with a response without
\* data, or rejected with an error whose code is 409, whose response status
\* is 409, or which is neither.
InsertOutcomes == {"ok", "code409", "status409", "fail", "noData"}

\* Faulty variant: only the response status is looked at.
InsertError_statusOnly(out) ==
    CASE out = "status409" -> "EventIdExists"
      [] out = "noData" -> "NoDataReturned"
      [] OTHER -> "GoogleApiError"

\* The catch of createEvent: error.code === 409 or
\* error.response.status === 409 gives the id-conflict message, anything
\* else goes through handleGoogleApiError.
InsertError(out) ==
    CASE out \in {"code409", "status409"} -> "EventIdExists"
      [] out = "noData" -> "NoDataReturned"
      [] OTHER -> "GoogleApiError"

\* events.insert settles; createEvent's catch translates a 409.
CrInsertDone ==
    /\ cr.pc = "insert"
    /\ \E out \in InsertOutcomes :
        cr' = [cr EXCEPT
                 !.pc = "done",
                 !.insertOutcome = out,
                 !.calls = Complete(cr.calls, IF out \in {"ok", "noData"} THEN "ok" ELSE "fail"),
                 !.result =
                    IF out = "ok"
                    THEN [NoResult EXCEPT !.status = "ok",
                                          !.duplicates = cr.duplicates,
                                          !.eventId = cr.eventId,
                                          !.calendarId = cr.calendarId,
                                          !.accountId = "selected"]
                    ELSE Failure(InsertError(out))]
    /\ UNCHANGED <<up, ls, se, lib, sc, post>>


\* ========================================================== Update handler
Scopes == {"absent", "all", "thisEventOnly", "thisAndFollowing"}
EventKinds == {"singleton", "recurringMaster", "recurringInstance"}
FutureStartInputs == {0, 48, 72}     \* 0: futureStartDate not given
NewStartInputs == {0, 50}            \* 0: start not given
NewEndInputs == {0, 53}              \* 0: end not given
\* The event being updated, as the service holds it.
OriginalEvent == Timed(1, <<"team", "sync">>, 10, 11)

UpIdle ==
    [pc |-> "idle", scope |-> "absent", start |-> 0, end |-> 0,
     checkConflicts |-> "absent", attendeesGiven |-> FALSE,
     originalStartTime |-> FALSE, futureStartDate |-> 0, hasTimeZone |-> FALSE,
     kind |-> "singleton", srvUntil |-> 0, srvNewStart |-> 0, srvNewEnd |-> 0,
     existingFetched |-> FALSE, conflictsChecked |-> FALSE,
     conflictsFound |-> FALSE, eventType |-> "none",
     calls |-> <<>>, result |-> NoResult]

TimeChange(u) == u.start # 0 \/ u.end # 0

ConflictCheckWanted(u) == u.checkConflicts # "false" /\ TimeChange(u)

\* Faulty variant: the event is read for the attendee merge only.
needsExistingEvent_attendeesOnly(u) == u.attendeesGiven

needsExistingEvent(u) == ConflictCheckWanted(u) \/ u.attendeesGiven

\* RecurringEventHelpers.detectEventType: an instance and a master are
\* both recurring, a singleton is not.
detectEventType(kind) == IF kind = "singleton" THEN "single" ELSE "recurring"

\* RecurringEventHelpers.calculateUntilDate: the day before futureStartDate.
calculateUntilDate(futureStartDate) == futureStartDate - DayLen

\* RecurringEventHelpers.calculateEndTime: keeps the original duration.
calculateEndTime(newStartTime, originalEvent) ==
    newStartTime + (originalEvent.end - originalEvent.start)

\* RecurringEventHelpers.formatInstanceId(eventId, originalStartTime)
formatInstanceId(eventId) == "evt_instance"

UpFail(u, err) == [u EXCEPT !.pc = "done", !.result = Failure(err)]

\* updateEventWithScope, lines 116-120: the timezone lookup comes first.
UpEnterScope(u) ==
    [u EXCEPT !.pc = "scopeTz",
              !.calls = Issue(u.calls, "calendars.get", "cal", NoArg)]

UpIssueConflicts(u) ==
    [u EXCEPT !.pc = "conflicts",
              !.calls = Issue(u.calls, "events.list", "cal", NoArg)]

\* runTool, lines 27-45.
UpStart ==
    /\ AllIdle
    /\ \E scope \in Scopes, st \in NewStartInputs, en \in NewEndInputs,
          cc \in Tri, att \in BOOLEAN, ost \in BOOLEAN,
          fsd \in FutureStartInputs, tz \in BOOLEAN, kind \in EventKinds :
        LET u == [UpIdle EXCEPT !.scope = scope, !.start = st, !.end = en,
                     !.checkConflicts = cc, !.attendeesGiven = att,
                     !.originalStartTime = ost, !.futureStartDate = fsd,
                     !.hasTimeZone = tz, !.kind = kind]
        IN  up' = IF needsExistingEvent(u)
                  THEN [u EXCEPT !.pc = "getExisting",
                                 !.calls = Issue(u.calls, "events.get", "evt", NoArg)]
                  ELSE UpEnterScope(u)
    /\ UNCHANGED <<cr, ls, se, lib, sc, post>>

\* runTool, lines 45-66: the existing event arrives (or the read fails).
UpGetExistingDone ==
    /\ up.pc = "getExisting"
    /\ \E out \in {"ok", "fail", "noData"} :
        up' = CASE out = "fail" ->
                     UpFail([up EXCEPT !.calls = Complete(up.calls, "fail")], "GoogleApiError")
                [] out = "noData" ->
                     UpFail([up EXCEPT !.calls = Complete(up.calls, "ok")], "EventNotFound")
                [] OTHER ->
                     LET u == [up EXCEPT !.calls = Complete(up.calls, "ok"),
                                         !.existingFetched = TRUE]
                     IN  IF ConflictCheckWanted(u)
                         THEN IF ~u.hasTimeZone
                              THEN [u EXCEPT !.pc = "conflictTz",
                                       !.calls = Issue(u.calls, "calendars.get", "cal", NoArg)]
                              ELSE UpIssueConflicts(u)
                         ELSE UpEnterScope(u)
    /\ UNCHANGED <<cr, ls, se, lib, sc, post>>

UpConflictTzDone ==
    /\ up.pc = "conflictTz"
    /\ up' = UpIssueConflicts([up EXCEPT !.calls = Complete(up.calls, "ok")])
    /\ UNCHANGED <<cr, ls, se, lib, sc, post>>

\* runTool, lines 68-92: checkConflicts returns, with or without
\* conflicts; attendees are merged, updateEventWithScope is entered.
UpConflictsDone ==
    /\ up.pc = "conflicts"
    /\ \E ok \in BOOLEAN, hasConflicts \in BOOLEAN :
        /\ (~ok => ~hasConflicts)
        /\ up' = IF ok
                 THEN UpEnterScope([up EXCEPT !.calls = Complete(up.calls, "ok"),
                                              !.conflictsChecked = TRUE,
                                              !.conflictsFound = hasConflicts])
                 ELSE UpFail([up EXCEPT !.calls = Complete(up.calls, "fail")],
                             "ConflictCheckFailed")
    /\ UNCHANGED <<cr, ls, se, lib, sc, post>>

UpScopeTzDone ==
    /\ up.pc = "scopeTz"
    /\ up' = [up EXCEPT !.pc = "detect",
                        !.calls = Issue(Complete(up.calls, "ok"), "events.get", "evt", NoArg)]
    /\ UNCHANGED <<cr, ls, se, lib, sc, post>>

\* Faulty variant: thisEventOnly is let through on a non-recurring event.
ScopeRejected_futureOnly(scope, eventType) ==
    scope = "thisAndFollowing" /\ eventType # "recurring"

\* Faulty variant: an absent scope is treated like a scope other than "all".
ScopeRejected_absentToo(scope, eventType) ==
    scope # "all" /\ eventType # "recurring"

\* The scope is valid for the detected event type.
ScopeRejected(scope, eventType) ==
    scope # "absent" /\ scope # "all" /\ eventType # "recurring"

\* Faulty variant: the scope-specific fields are not checked.
UpDispatch_noFieldCheck(u) ==
    IF ScopeRejected(u.scope, u.eventType)
    THEN UpFail(u, "NON_RECURRING_SCOPE")
    ELSE CASE u.scope = "thisEventOnly" ->
                 [u EXCEPT !.pc = "patch",
                     !.calls = Issue(u.calls, "events.patch", formatInstanceId("evt"),
                                     [NoArg EXCEPT !.start = u.start, !.end = u.end])]
           [] u.scope = "thisAndFollowing" ->
                 [u EXCEPT !.pc = "futGet",
                     !.calls = Issue(u.calls, "events.get", "evt", NoArg)]
           [] OTHER ->
                 [u EXCEPT !.pc = "patch",
                     !.calls = Issue(u.calls, "events.patch", "evt",
                                     [NoArg EXCEPT !.start = u.start, !.end = u.end])]

\* updateEventWithScope, lines 123-145, and the first lines of the three
\* update methods, up to their first await.
UpDispatch(u) ==
    IF ScopeRejected(u.scope, u.eventType)
    THEN UpFail(u, "NON_RECURRING_SCOPE")
    ELSE CASE u.scope = "thisEventOnly" ->
                 IF ~u.originalStartTime
                 THEN UpFail(u, "MISSING_ORIGINAL_TIME")
                 ELSE [u EXCEPT !.pc = "patch",
                         !.calls = Issue(u.calls, "events.patch", formatInstanceId("evt"),
                                         [NoArg EXCEPT !.start = u.start, !.end = u.end])]
           [] u.scope = "thisAndFollowing" ->
                 IF u.futureStartDate = 0
                 THEN UpFail(u, "MISSING_FUTURE_DATE")
                 ELSE [u EXCEPT !.pc = "futGet",
                         !.calls = Issue(u.calls, "events.get", "evt", NoArg)]
           [] OTHER ->
                 [u EXCEPT !.pc = "patch",
                     !.calls = Issue(u.calls, "events.patch", "evt",
                                     [NoArg EXCEPT !.start = u.start, !.end = u.end])]

UpDetectDone ==
    /\ up.pc = "detect"
    /\ \E ok \in BOOLEAN :
        up' = IF ok
              THEN UpDispatch([up EXCEPT !.calls = Complete(up.calls, "ok"),
                                         !.eventType = detectEventType(up.kind)])
              ELSE UpFail([up EXCEPT !.calls = Complete(up.calls, "fail")], "GoogleApiError")
    /\ UNCHANGED <<cr, ls, se, lib, sc, post>>

UpOk(u) ==
    [u EXCEPT !.pc = "done",
              !.result = [NoResult EXCEPT !.status = "ok", !.calendarId = "cal",
                                          !.accountId = "selected"]]

\* updateSingleInstance / updateAllInstances: events.patch settles.
UpPatchDone ==
    /\ up.pc = "patch"
    /\ \E out \in {"ok", "fail", "noData"} :
        up' = CASE out = "ok" -> UpOk([up EXCEPT !.calls = Complete(up.calls, "ok")])
                [] out = "noData" ->
                     UpFail([up EXCEPT !.calls = Complete(up.calls, "ok")], "NoDataReturned")
                [] OTHER ->
                     UpFail([up EXCEPT !.calls = Complete(up.calls, "fail")], "GoogleApiError")
    /\ UNCHANGED <<cr, ls, se, lib, sc, post>>

\* updateFutureInstances, lines 224-242: the original event arrives, its
\* recurrence is cut with UNTIL and the patch is issued.
UpFutGetDone ==
    /\ up.pc = "futGet"
    /\ \E ok \in BOOLEAN :
        up' = IF ~ok
              THEN UpFail([up EXCEPT !.calls = Complete(up.calls, "fail")], "GoogleApiError")
              ELSE LET u == [up EXCEPT !.calls = Complete(up.calls, "ok")]
                   IN  IF u.kind # "recurringMaster"
                       THEN UpFail(u, "NoRecurrenceRules")
                       ELSE [u EXCEPT !.pc = "futPatch",
                               !.calls = Issue(u.calls, "events.patch", "evt",
                                   [NoArg EXCEPT !.until = calculateUntilDate(u.futureStartDate)])]
    /\ UNCHANGED <<cr, ls, se, lib, sc, post>>

\* The start and end of the event updateFutureInstances inserts.
FutureStart(u) == IF u.start # 0 THEN u.start ELSE u.futureStartDate

\* Faulty variant of FutureEnd: the end is computed from futureStartDate
\* even when the request moves the start.
FutureEnd_fromFutureDate(u) ==
    IF u.end # 0 THEN u.end ELSE calculateEndTime(u.futureStartDate, OriginalEvent)

FutureEnd(u) == IF u.end # 0 THEN u.end ELSE calculateEndTime(FutureStart(u), OriginalEvent)

\* Faulty variant: the insert is issued whatever the patch did.
UpFutPatchDone_ignoresFailure ==
    /\ up.pc = "futPatch"
    /\ \E ok \in BOOLEAN :
        up' = [up EXCEPT !.pc = "futInsert",
                 !.srvUntil = IF ok THEN calculateUntilDate(up.futureStartDate) ELSE @,
                 !.calls = Issue(Complete(up.calls, IF ok THEN "ok" ELSE "fail"),
                                 "events.insert", "cal",
                                 [NoArg EXCEPT !.start = FutureStart(up),
                                               !.end = FutureEnd(up)])]
    /\ UNCHANGED <<cr, ls, se, lib, sc, post>>

\* updateFutureInstances, lines 238-275: the truncating patch settles; on
\* success the new series is built and events.insert is issued.
UpFutPatchDone ==
    /\ up.pc = "futPatch"
    /\ \E ok \in BOOLEAN :
        up' = IF ~ok
              THEN UpFail([up EXCEPT !.calls = Complete(up.calls, "fail")], "GoogleApiError")
              ELSE [up EXCEPT !.pc = "futInsert",
                      !.srvUntil = calculateUntilDate(up.futureStartDate),
                      !.calls = Issue(Complete(up.calls, "ok"), "events.insert", "cal",
                                      [NoArg EXCEPT !.start = FutureStart(up),
                                                    !.end = FutureEnd(up)])]
    /\ UNCHANGED <<cr, ls, se, lib, sc, post>>

\* Faulty variant: a failed insert is swallowed.
UpFutInsertDone_swallows ==
    /\ up.pc = "futInsert"
    /\ \E out \in {"ok", "fail", "noData"} :
        up' = IF out = "fail"
              THEN UpOk([up EXCEPT !.calls = Complete(up.calls, "fail")])
              ELSE UpOk([up EXCEPT !.calls = Complete(up.calls, "ok"),
                                   !.srvNewStart = FutureStart(up),
                                   !.srvNewEnd = FutureEnd(up)])
    /\ UNCHANGED <<cr, ls, se, lib, sc, post>>

\* updateFutureInstances, lines 270-278: events.insert settles.
UpFutInsertDone ==
    /\ up.pc = "futInsert"
    /\ \E out \in {"ok", "fail", "noData"} :
        up' = CASE out = "ok" ->
                     UpOk([up EXCEPT !.calls = Complete(up.calls, "ok"),
                                     !.srvNewStart = FutureStart(up),
                                     !.srvNewEnd = FutureEnd(up)])
                [] out = "noData" ->
                     UpFail([up EXCEPT !.calls = Complete(up.calls, "ok"),
                                       !.srvNewStart = FutureStart(up),
                                       !.srvNewEnd = FutureEnd(up)], "NoDataReturned")
                [] OTHER ->
                     UpFail([up EXCEPT !.calls = Complete(up.calls, "fail")], "GoogleApiError")
    /\ UNCHANGED <<cr, ls, se, lib, sc, post>>


\* ============================================================ List handler
Accounts == 1..MaxAccounts
Cals == 1..MaxCals

\* Sequences over S without repetition, of length 1..n.
NoRepeat(S, n) ==
    {q \in UNION {[1..k -> S] : k \in 1..n} :
        \A i, j \in 1..Len(q) : i # j => q[i] # q[j]}

\* What events.list returns for a calendar: two events, ordered by start;
\* the second ones of all calendars start at the same time.
ListedEvent(c, k, start) ==
    [id |-> 10 * c + k, start |-> start, calendarId |-> 0, accountId |-> 0]

EventsOf(c) ==
    <<ListedEvent(c, 1, MaxCals + 1 - c), ListedEvent(c, 2, MaxCals + 1)>>

TagCalendar(evs, c) == [i \in 1..Len(evs) |-> [evs[i] EXCEPT !.calendarId = c]]
TagAccount(evs, a) == [i \in 1..Len(evs) |-> [evs[i] EXCEPT !.accountId = a]]

RECURSIVE Flatten(_)
Flatten(ss) == IF ss = <<>> THEN <<>> ELSE Head(ss) \o Flatten(Tail(ss))

\* BaseToolHandler.sortEventsByStartTime: ascending by start, stable.
RECURSIVE InsertByStart(_, _)
InsertByStart(sorted, e) ==
    IF sorted = <<>> THEN <<e>>
    ELSE IF e.start < Head(sorted).start THEN <<e>> \o sorted
    ELSE <<Head(sorted)>> \o InsertByStart(Tail(sorted), e)

RECURSIVE sortEventsByStartTime(_)
sortEventsByStartTime(evs) ==
    IF evs = <<>> THEN <<>>
    ELSE InsertByStart(sortEventsByStartTime(SubSeq(evs, 1, Len(evs) - 1)),
                       evs[Len(evs)])

RECURSIVE Dedup(_)
Dedup(q) ==
    IF q = <<>> THEN <<>>
    ELSE LET rest == Dedup(SubSeq(q, 1, Len(q) - 1))
             last == q[Len(q)]
         IN  IF last \in SeqToSet(rest) THEN rest ELSE Append(rest, last)

\* CalendarRegistry.resolveCalendarsToAccounts: every requested calendar
\* goes to one selected account that can access it; a calendar no selected
\* account can access is left out with a warning.  The map keeps the order
\* in which its accounts were first used.
ServingAccounts(c, selected, access) == {a \in selected : c \in access[a]}

PreferredAccount(c, selected, access) ==
    CHOOSE a \in ServingAccounts(c, selected, access) :
        \A b \in ServingAccounts(c, selected, access) : a <= b

\* A warning of a response: what happened, to which calendar or account.
Warning(kind, calendarId, accountId) ==
    [kind |-> kind, calendarId |-> calendarId, accountId |-> accountId]

RECURSIVE ResolveFrom(_, _, _, _)
ResolveFrom(req, selected, access, acc) ==
    IF req = <<>> THEN acc
    ELSE LET c == Head(req)
         IN  IF ServingAccounts(c, selected, access) = {}
             THEN ResolveFrom(Tail(req), selected, access,
                     [acc EXCEPT !.warnings = Append(@, Warning("unresolved", c, 0))])
             ELSE LET a == PreferredAccount(c, selected, access)
                  IN  ResolveFrom(Tail(req), selected, access,
                         [acc EXCEPT !.resolved[a] = Append(@, c),
                                     !.order = IF a \in SeqToSet(@) THEN @
                                               ELSE Append(@, a)])

resolveCalendarsToAccounts(req, selected, access) ==
    ResolveFrom(req, selected, access,
        [resolved |-> [a \in Accounts |-> <<>>], order |-> <<>>, warnings |-> <<>>])

NoSlot == [calendarIds |-> <<>>, events |-> <<>>]

NoResponse ==
    [status |-> "none", err |-> "", events |-> <<>>, totalCount |-> 0,
     calendars |-> <<>>, partialFailures |-> <<>>, warnings |-> <<>>]

LsIdle ==
    [pc |-> "idle", accounts |-> {}, req |-> <<>>,
     access |-> [a \in Accounts |-> {}],
     map |-> [a \in Accounts |-> <<>>], order |-> <<>>,
     branch |-> [a \in Accounts |-> "none"],
     slot |-> [a \in Accounts |-> NoSlot],
     partialFailures |-> <<>>, resolutionWarnings |-> <<>>,
     failed |-> {}, threw |-> {}, response |-> NoResponse]

LsFail(l, err) ==
    [l EXCEPT !.pc = "done",
              !.response = [NoResponse EXCEPT !.status = "error", !.err = err]]

\* A response of the batch: its status code, the items of its body (<<>>
\* when the body has no items, <<list>> when it has) and the error message
\* of its body (<<>> when it has none).
BatchResponse(statusCode, items, message) ==
    [statusCode |-> statusCode, items |-> items, message |-> message]

StatusText(statusCode) ==
    CASE statusCode = 200 -> "200" [] statusCode = 404 -> "404" [] OTHER -> "500"

\* body.error.message || body.message || `HTTP ${statusCode}`
ErrorMessage(response) ==
    IF response.message # <<>> THEN response.message
    ELSE <<"HTTP", StatusText(response.statusCode)>>

\* The forEach of processBatchResponses from index on.
RECURSIVE ProcessFrom(_, _, _, _)
ProcessFrom(responses, calendarIds, index, acc) ==
    IF index > Len(responses) THEN acc
    ELSE LET response == responses[index]
             calendarId == calendarIds[index]
         IN  ProcessFrom(responses, calendarIds, index + 1,
                IF response.statusCode = 200 /\ response.items # <<>>
                THEN [acc EXCEPT !.events =
                         @ \o TagCalendar(response.items[1], calendarId)]
                ELSE [acc EXCEPT !.errors =
                         Append(@, [calendarId |-> calendarId,
                                    error |-> ErrorMessage(response)])])

\* Faulty variant: every event is tagged with the first calendar of the batch.
processBatchResponses_firstCalendar(responses, calendarIds) ==
    LET r == ProcessFrom(responses, calendarIds, 1, [events |-> <<>>, errors |-> <<>>])
    IN  [events |-> TagCalendar(r.events, calendarIds[1]), errors |-> r.errors]

\* Faulty variant: a 200 response without items is passed over in silence.
processBatchResponses_ignoresMissingItems(responses, calendarIds) ==
    LET r == ProcessFrom(responses, calendarIds, 1, [events |-> <<>>, errors |-> <<>>])
    IN  [events |-> r.events,
         errors |-> SelectSeq(r.errors, LAMBDA e : e.error # <<"HTTP", "200">>)]

\* processBatchResponses: the i-th response belongs to calendarIds[i]; a
\* 200 with items yields its events tagged with the calendar, anything
\* else an error entry.
processBatchResponses(responses, calendarIds) ==
    ProcessFrom(responses, calendarIds, 1, [events |-> <<>>, errors |-> <<>>])

\* What executeBatch returns: one response per calendar, in the order of
\* the requests; a failing calendar gives a 404.
BatchResponses(calendarIds, failing) ==
    [i \in 1..Len(calendarIds) |->
        IF calendarIds[i] \in failing
        THEN BatchResponse(404, <<>>, <<"Not Found">>)
        ELSE BatchResponse(200, <<EventsOf(calendarIds[i])>>, <<>>)]

\* fetchMultipleCalendarEvents: the batch errors go to stderr only.
fetchMultipleCalendarEvents(calendarIds, failing) ==
    sortEventsByStartTime(
        processBatchResponses(BatchResponses(calendarIds, failing), calendarIds).events)

\* fetchSingleCalendarEvents on success.
fetchSingleCalendarEvents(calendarId) ==
    TagCalendar(EventsOf(calendarId), calendarId)

\* fetchEvents throws when the single calendar's events.list fails, or
\* when executeBatch fails as a whole.
FetchThrows(calendarIds, failing, batchThrows) ==
    IF Len(calendarIds) = 1 THEN calendarIds[1] \in failing ELSE batchThrows

\* Faulty variant: a failing branch is raised whatever the number of accounts.
StrictMode_always(selected) == Cardinality(selected) >= 1

\* The catch of runTool, line 85: with one selected account the error of
\* its branch is raised.
StrictMode(selected) == Cardinality(selected) = 1

fetchEvents(calendarIds, failing) ==
    IF Len(calendarIds) = 1 THEN fetchSingleCalendarEvents(calendarIds[1])
    ELSE fetchMultipleCalendarEvents(calendarIds, failing)

\* Faulty variant: an empty routing map is not noticed.
NoCalendars_never(order) == FALSE

\* accountCalendarMap.size === 0
NoCalendars(order) == order = <<>>

\* Faulty variant: one branch per selected account.
BranchAccounts_allSelected(order, selected) == selected

\* Array.from(accountCalendarMap.entries()): one branch per account of
\* the routing map.
BranchAccounts(order, selected) == SeqToSet(order)

\* runTool, lines 22-59: select the accounts, route the calendars, start
\* one branch per account of the map.
LsStart ==
    /\ AllIdle
    /\ \E selected \in (SUBSET Accounts) \ {{}}, req \in NoRepeat(Cals, MaxCals),
          access \in [Accounts -> SUBSET Cals] :
        LET l == [LsIdle EXCEPT !.accounts = selected, !.req = req, !.access = access]
            r == resolveCalendarsToAccounts(req, selected, access)
            only == CHOOSE a \in selected : TRUE
        IN  ls' = IF Cardinality(selected) > 1
                  THEN IF NoCalendars(r.order)
                       THEN LsFail([l EXCEPT !.resolutionWarnings = r.warnings],
                                   "NoCalendarsFound")
                       ELSE [l EXCEPT !.pc = "fetch", !.map = r.resolved,
                                !.order = r.order,
                                !.resolutionWarnings = r.warnings,
                                !.branch = [a \in Accounts |->
                                    IF a \in BranchAccounts(r.order, selected)
                                    THEN "pending" ELSE "none"]]
                  ELSE [l EXCEPT !.pc = "fetch", !.map[only] = req,
                           !.order = <<only>>, !.branch[only] = "pending"]
    /\ UNCHANGED <<cr, up, se, lib, sc, post>>

\* runTool, lines 60-97: the branch of one account settles.  failing is
\* the set of its calendars whose fetch the service fails.
LsBranchDone(a) ==
    /\ ls.pc = "fetch"
    /\ ls.branch[a] = "pending"
    /\ \E failing \in SUBSET SeqToSet(ls.map[a]), batchThrows \in BOOLEAN :
        LET calendarIds == ls.map[a]
            unresolved == Cardinality(ls.accounts) = 1
                          /\ ~(SeqToSet(calendarIds) \subseteq ls.access[a])
            threw == unresolved \/ FetchThrows(calendarIds, failing, batchThrows)
            l == [ls EXCEPT !.branch[a] = "done",
                            !.failed = IF unresolved THEN @
                                       ELSE @ \cup {<<a, c>> : c \in failing},
                            !.threw = IF threw THEN @ \cup {a} ELSE @]
        IN  /\ (unresolved => failing = {} /\ ~batchThrows)
            /\ (batchThrows => Len(calendarIds) > 1 /\ failing = SeqToSet(calendarIds))
            /\ ls' = IF threw
                     THEN IF StrictMode(ls.accounts)
                          THEN LsFail(l, IF unresolved THEN "CalendarNotFound"
                                                       ELSE "GoogleApiError")
                          ELSE [l EXCEPT !.partialFailures = Append(@, a),
                                         !.slot[a] = NoSlot]
                     ELSE [l EXCEPT !.slot[a] =
                             [calendarIds |-> calendarIds,
                              events |-> TagAccount(fetchEvents(calendarIds, failing), a)]]
    /\ UNCHANGED <<cr, up, se, lib, sc, post>>

\* Faulty variant: the merged events are left in slot order.
MergeEvents_concat(perAccountEvents) == Flatten(perAccountEvents)

\* runTool, lines 100-105: the events of all accounts, flattened and sorted.
MergeEvents(perAccountEvents) ==
    sortEventsByStartTime(Flatten(perAccountEvents))

\* runTool, lines 100-141: all branches have settled; merge, sort, respond.
LsMerge ==
    /\ ls.pc = "fetch"
    /\ \A a \in Accounts : ls.branch[a] # "pending"
    /\ LET perAccount == [i \in 1..Len(ls.order) |-> ls.slot[ls.order[i]]]
           allEvents == MergeEvents([i \in 1..Len(perAccount) |-> perAccount[i].events])
           queried == Dedup(Flatten([i \in 1..Len(perAccount) |->
                                        perAccount[i].calendarIds]))
       IN  ls' = [ls EXCEPT
                    !.pc = "done",
                    !.response =
                       [status |-> "ok", err |-> "", events |-> allEvents,
                        totalCount |-> Len(allEvents),
                        calendars |-> IF Len(queried) > 1 THEN queried ELSE <<>>,
                        partialFailures |-> ls.partialFailures,
                        warnings |-> ls.resolutionWarnings \o
                            [i \in 1..Len(ls.partialFailures) |->
                                Warning("accountFailed", 0, ls.partialFailures[i])]]]
    /\ UNCHANGED <<cr, up, se, lib, sc, post>>


\* ========================================================== Search handler
SeIdle ==
    [pc |-> "idle", accounts |-> {}, req |-> <<>>,
     access |-> [a \in Accounts |-> {}],
     map |-> [a \in Accounts |-> <<>>], order |-> <<>>,
     pos |-> [a \in Accounts |-> 1],
     allEvents |-> <<>>, queriedCalendarIds |-> <<>>,
     resolutionWarnings |-> <<>>, failed |-> {}, response |-> NoResponse]

SeFail(s, err) ==
    [s EXCEPT !.pc = "done",
              !.response = [NoResponse EXCEPT !.status = "error", !.err = err]]

\* Faulty variant: only the number of accounts is looked at.
SeTolerates_accountsOnly(order, calendarIds) == Len(order) > 1

\* The catch of runTool, line 86: the failure is a warning when the routing
\* map has several accounts or this account several calendars.
SeTolerates(order, calendarIds) == Len(order) > 1 \/ Len(calendarIds) > 1

\* runTool, lines 23-67: select the accounts, route the calendars, start
\* one branch per account of the map.
SeStart ==
    /\ AllIdle
    /\ \E selected \in (SUBSET Accounts) \ {{}}, req \in NoRepeat(Cals, MaxCals),
          access \in [Accounts -> SUBSET Cals] :
        LET s == [SeIdle EXCEPT !.accounts = selected, !.req = req, !.access = access]
            r == resolveCalendarsToAccounts(req, selected, access)
            only == CHOOSE a \in selected : TRUE
        IN  se' = IF Cardinality(selected) > 1 \/ Len(req) > 1
                  THEN IF NoCalendars(r.order)
                       THEN SeFail([s EXCEPT !.resolutionWarnings = r.warnings],
                                   "NoCalendarsFound")
                       ELSE [s EXCEPT !.pc = "fetch", !.map = r.resolved,
                                !.order = r.order, !.resolutionWarnings = r.warnings]
                  ELSE IF req[1] \notin access[only]
                       THEN SeFail(s, "CalendarNotFound")
                       ELSE [s EXCEPT !.pc = "fetch", !.map[only] = req,
                                      !.order = <<only>>]
    /\ UNCHANGED <<cr, up, ls, lib, sc, post>>

\* runTool, lines 69-93: the search of the next calendar of one account's
\* branch settles.
SeSearchDone(a) ==
    /\ se.pc = "fetch"
    /\ se.pos[a] <= Len(se.map[a])
    /\ \E ok \in BOOLEAN :
        LET calendarId == se.map[a][se.pos[a]]
            s == [se EXCEPT !.pos[a] = @ + 1]
        IN  se' = IF ok
                  THEN [s EXCEPT
                          !.allEvents = @ \o TagAccount(
                              TagCalendar(EventsOf(calendarId), calendarId), a),
                          !.queriedCalendarIds = Append(@, calendarId)]
                  ELSE IF SeTolerates(se.order, se.map[a])
                       THEN [s EXCEPT
                               !.failed = @ \cup {<<a, calendarId>>},
                               !.resolutionWarnings =
                                   Append(@, Warning("searchFailed", calendarId, a))]
                       ELSE SeFail([s EXCEPT !.failed = @ \cup {<<a, calendarId>>}],
                                   "GoogleApiError")
    /\ UNCHANGED <<cr, up, ls, lib, sc, post>>

\* runTool, lines 97-130: all branches have finished; sort and respond.
\* (timeRange, display data taken from the first calendar, is left out.)
SeMerge ==
    /\ se.pc = "fetch"
    /\ \A a \in Accounts : se.pos[a] > Len(se.map[a])
    /\ LET allEvents == sortEventsByStartTime(se.allEvents)
       IN  se' = [se EXCEPT
                    !.pc = "done",
                    !.response =
                       [status |-> "ok", err |-> "", events |-> allEvents,
                        totalCount |-> Len(allEvents),
                        calendars |-> se.queriedCalendarIds,
                        partialFailures |-> <<>>,
                        warnings |-> se.resolutionWarnings]]
    /\ UNCHANGED <<cr, up, ls, lib, sc, post>>

\* ========================================================== specification
\* No library function is being applied.
NoLibCall == [fn |-> "none", args |-> <<>>, out |-> <<>>, rev |-> <<>>]

\* ------------------------------------------------- scheduler front end
\* A piece of message text.  A chunk of the agent's answer is either prose
\* or one fenced json block; json tells what JSON.parse makes of the block
\* and events is the array it yields.
Piece(text, block, json, events) ==
    [text |-> text, block |-> block, json |-> json, events |-> events]

Prose(text) == Piece(text, FALSE, "none", <<>>)

ProposedEvent(id, status) == [id |-> id, status |-> status]

NoLast == [op |-> "none", id |-> 0, blank |-> FALSE, passed |-> FALSE,
           outcome |-> "none"]

NoSend == [pc |-> "none", fullContent |-> <<>>]

\* SchedulerProvider's state after the first render, no sendMessage and no
\* mutation in flight.  last names the operation that ran last.
ScIdle ==
    [status |-> "idle", proposedEvents |-> <<>>, messages |-> <<>>,
     isStreaming |-> FALSE, sends |-> [k \in 1..MaxSends |-> NoSend],
     pending |-> 0, commits |-> 0, last |-> NoLast]

\* ------------------------------------------------- POST /api/calendar
NoPostResponse == [status |-> 0, created |-> <<>>, errors |-> <<>>]

PostIdle ==
    [pc |-> "idle", mock |-> FALSE, session |-> "unread", events |-> <<>>,
     index |-> 0,
     created |-> <<>>, errors |-> <<>>, attempted |-> <<>>,
     response |-> NoPostResponse]

Init ==
    /\ cr = CrIdle
    /\ up = UpIdle
    /\ ls = LsIdle
    /\ se = SeIdle
    /\ sc = ScIdle
    /\ post = PostIdle
    /\ lib = NoLibCall

Next ==
    \/ CrStart
    \/ CrTimezoneDone
    \/ CrDetectDone
    \/ CrTimezone2Done
    \/ CrInsertDone
    \/ UpStart
    \/ UpGetExistingDone
    \/ UpConflictTzDone
    \/ UpConflictsDone
    \/ UpScopeTzDone
    \/ UpDetectDone
    \/ UpPatchDone
    \/ UpFutGetDone
    \/ UpFutPatchDone
    \/ UpFutInsertDone
    \/ LsStart
    \/ \E a \in Accounts : LsBranchDone(a)
    \/ LsMerge
    \/ SeStart
    \/ \E a \in Accounts : SeSearchDone(a)
    \/ SeMerge

Spec == Init /\ [][Next]_vars


\* ================================================ EventSimilarityChecker
\* The checker's public methods applied to a pair of events: lib holds the
\* method, its arguments, its result (out) and, for the two-event methods,
\* the result of the same call with the events exchanged (rev).
SimTitles ==
    {<<"Team", "Sync">>, <<"team", "sync">>, <<"team", "lunch">>, <<"lunch">>, <<>>,
     <<"team", "team", "lunch">>, <<"sync", "team", "plan">>}

SimRanges ==
    {<<d * DayLen + s, d * DayLen + e>> :
        <<d, s, e>> \in {x \in (0..1) \X (0..MaxHour) \X (0..MaxHour) : x[2] < x[3]}}

SimEvents(id) ==
    UNION {   {Timed(id, t, r[1], r[2]) : r \in SimRanges}
         \cup {AllDay(id, t, d) : d \in 0..1}
         \cup {Ev(id, t, "none", "dateTime", 0, 1, "confirmed"),
               Ev(id, t, "dateTime", "none", 0, 0, "confirmed"),
               Ev(id, t, "date", "none", 0, 0, "confirmed")}
          : t \in SimTitles}

SimThresholds == {<<>>, <<0>>, <<30>>, <<40>>, <<41>>, <<70>>}

SimArgs(event1, event2) ==
    [event1 |-> event1, event2 |-> event2, threshold |-> <<>>, events |-> <<>>]

SimInit ==
    /\ cr = CrIdle
    /\ up = UpIdle
    /\ ls = LsIdle
    /\ se = SeIdle
    /\ sc = ScIdle
    /\ post = PostIdle
    /\ lib \in {[NoLibCall EXCEPT !.args = SimArgs(a, b)] :
                    a \in SimEvents(1), b \in SimEvents(2)}

SimCheckSimilarity ==
    /\ lib.fn = "none"
    /\ lib' = [lib EXCEPT !.fn = "checkSimilarity",
                          !.out = checkSimilarity(lib.args.event1, lib.args.event2),
                          !.rev = checkSimilarity(lib.args.event2, lib.args.event1)]
    /\ UNCHANGED <<cr, up, ls, se, sc, post>>

SimIsDuplicate ==
    /\ lib.fn = "none"
    /\ \E t \in SimThresholds :
          lib' = [lib EXCEPT !.fn = "isDuplicate",
                            !.args.threshold = t,
                            !.out = isDuplicate(lib.args.event1, lib.args.event2, t),
                            !.rev = isDuplicate(lib.args.event2, lib.args.event1, t)]
    /\ UNCHANGED <<cr, up, ls, se, sc, post>>

SimEventsOverlap ==
    /\ lib.fn = "none"
    /\ lib' = [lib EXCEPT !.fn = "eventsOverlap",
                          !.out = eventsOverlap(lib.args.event1, lib.args.event2),
                          !.rev = eventsOverlap(lib.args.event2, lib.args.event1)]
    /\ UNCHANGED <<cr, up, ls, se, sc, post>>

SimCalculateOverlapDuration ==
    /\ lib.fn = "none"
    /\ lib' = [lib EXCEPT !.fn = "calculateOverlapDuration",
                          !.out = calculateOverlapDuration(lib.args.event1, lib.args.event2),
                          !.rev = calculateOverlapDuration(lib.args.event2, lib.args.event1)]
    /\ UNCHANGED <<cr, up, ls, se, sc, post>>

SimAnalyzeOverlap ==
    /\ lib.fn = "none"
    /\ lib' = [lib EXCEPT !.fn = "analyzeOverlap",
                          !.out = analyzeOverlap(lib.args.event1, lib.args.event2),
                          !.rev = analyzeOverlap(lib.args.event2, lib.args.event1)]
    /\ UNCHANGED <<cr, up, ls, se, sc, post>>

\* The list searched: the second event as the service returned it (under
\* the target's id or its own, cancelled or not), alone or after an event
\* that spans the first two days.
SimFindOverlappingEvents ==
    /\ lib.fn = "none"
    /\ \E id \in {1, 2}, status \in {"confirmed", "cancelled"},
          before \in {<<>>, <<Timed(3, <<"lunch">>, 0, 2 * DayLen)>>} :
          LET events == before \o <<[lib.args.event2 EXCEPT !.id = id, !.status = status]>>
          IN  lib' = [lib EXCEPT !.fn = "findOverlappingEvents",
                                !.args.events = events,
                                !.out = findOverlappingEvents(events, lib.args.event1)]
    /\ UNCHANGED <<cr, up, ls, se, sc, post>>

SimNext ==
    \/ SimCheckSimilarity
    \/ SimIsDuplicate
    \/ SimEventsOverlap
    \/ SimCalculateOverlapDuration
    \/ SimAnalyzeOverlap
    \/ SimFindOverlappingEvents

SimSpec == SimInit /\ [][SimNext]_vars


\* ================================================================= claims
Inserts(calls) == CallsOf(calls, "events.insert")

\* C1: once duplicate detection has returned a duplicate of similarity
\* >= 0.9 and allowDuplicates is not exactly true, the Create request has
\* failed with the duplicate error and events.insert was never issued.
C1_DuplicateBlocksCreation ==
    (ExactDuplicates(cr.duplicates) # <<>> /\ cr.allowDuplicates # "true")
        => /\ cr.pc = "done"
           /\ cr.result.status = "error"
           /\ cr.result.err = "DuplicateEvent"
           /\ Inserts(cr.calls) = <<>>

C1_Witness ==
    /\ cr.pc = "done"
    /\ cr.allowDuplicates \in {"absent", "false"}
    /\ \E i \in 1..Len(cr.duplicates) : cr.duplicates[i].similarity = 95
    /\ cr.result.err = "DuplicateEvent"

\* C2: with allowDuplicates = true a duplicate of similarity >= 0.9 never
\* yields the duplicate error; when the request is otherwise valid
\* events.insert is issued exactly once, and every returned response
\* reports the matched event in duplicates.
C2_OverrideCreatesAndReports ==
    (cr.allowDuplicates = "true" /\ ExactDuplicates(cr.duplicates) # <<>>)
        => /\ cr.result.err # "DuplicateEvent"
           /\ (IdError(cr) = "" /\ BodyError(cr) = "" /\ cr.pc \in {"insert", "done"}
                  => Len(Inserts(cr.calls)) = 1)
           /\ (cr.result.status = "ok"
                  => /\ Len(Inserts(cr.calls)) = 1
                     /\ ExactDuplicates(cr.result.duplicates) = ExactDuplicates(cr.duplicates))

C2_Witness ==
    /\ cr.allowDuplicates = "true"
    /\ cr.result.status = "ok"
    /\ Len(Inserts(cr.calls)) = 1
    /\ \E i \in 1..Len(cr.result.duplicates) :
          cr.result.duplicates[i].similarity = 95 /\ cr.result.duplicates[i].id = 1

\* C3: Update with scope thisAndFollowing: events.insert is only ever
\* issued after exactly one events.patch on the original event id has
\* completed successfully with an UNTIL before futureStartDate; a successful
\* request made exactly that patch followed by exactly one insert carrying
\* the new start and end.
C3_TruncateThenInsert ==
    LET m == Mutating(up.calls)
    IN  up.scope = "thisAndFollowing"
        => /\ (Inserts(up.calls) # <<>>
                 => /\ Len(m) = 2
                    /\ m[1].api = "events.patch" /\ m[1].target = "evt"
                    /\ m[1].outcome = "ok"
                    /\ m[1].arg.until < up.futureStartDate
                    /\ m[2].api = "events.insert")
           /\ (up.result.status = "ok"
                 => /\ Len(m) = 2
                    /\ m[2].api = "events.insert" /\ m[2].outcome = "ok"
                    /\ m[2].arg.start = FutureStart(up)
                    /\ up.srvUntil < up.futureStartDate /\ up.srvUntil # 0
                    /\ up.srvNewStart = FutureStart(up))

C3_Witness ==
    /\ up.scope = "thisAndFollowing" /\ up.kind = "recurringMaster"
    /\ up.result.status = "ok"
    /\ Len(Mutating(up.calls)) = 2
    /\ up.futureStartDate = 48 /\ up.srvUntil = 24

\* C4: Update with scope thisAndFollowing: when the truncating patch
\* succeeded and the insert failed, the request has failed with an error,
\* the two calls are the only mutating ones, the series is truncated and
\* no replacement exists.
C4_InsertFailureSurfaced ==
    LET m == Mutating(up.calls)
    IN  (up.scope = "thisAndFollowing" /\ Inserts(up.calls) # <<>>
         /\ Inserts(up.calls)[1].outcome = "fail")
        => /\ up.pc = "done"
           /\ up.result.status = "error"
           /\ Len(m) = 2 /\ m[1].api = "events.patch" /\ m[1].outcome = "ok"
           /\ up.srvUntil = calculateUntilDate(up.futureStartDate)
           /\ up.srvNewStart = 0

C4_Witness ==
    /\ up.scope = "thisAndFollowing"
    /\ Len(Inserts(up.calls)) = 1 /\ Inserts(up.calls)[1].outcome = "fail"
    /\ up.result.status = "error" /\ up.srvUntil # 0 /\ up.srvNewStart = 0

NonDefaultScope(u) == u.scope \in {"thisEventOnly", "thisAndFollowing"}

\* C5 (as stated): a non-default scope on an event detected as
\* non-recurring fails with the scope error and no call at all, read or
\* write, was made to the calendar service before.
C5_NoExternalCallAtAll ==
    (NonDefaultScope(up) /\ up.eventType = "single")
        => /\ up.result.err = "NON_RECURRING_SCOPE"
           /\ up.calls = <<>>

\* C5 (amended): a non-default scope on an event detected as non-recurring
\* fails with the scope error, and no mutating call (events.patch,
\* events.insert) is ever made for a non-default scope on a singleton.
C5_ScopeRejectedBeforeMutation ==
    /\ (NonDefaultScope(up) /\ up.eventType = "single")
          => /\ up.pc = "done" /\ up.result.status = "error"
             /\ up.result.err = "NON_RECURRING_SCOPE"
    /\ (NonDefaultScope(up) /\ up.kind = "singleton")
          => Mutating(up.calls) = <<>>

C5_Witness ==
    /\ NonDefaultScope(up) /\ up.eventType = "single"
    /\ up.result.err = "NON_RECURRING_SCOPE"
    /\ Len(up.calls) >= 3 /\ up.existingFetched

MissingScopeField(u) ==
    \/ u.scope = "thisAndFollowing" /\ u.futureStartDate = 0
    \/ u.scope = "thisEventOnly" /\ ~u.originalStartTime

MissingFieldError(u) ==
    IF u.scope = "thisAndFollowing" THEN "MISSING_FUTURE_DATE"
    ELSE "MISSING_ORIGINAL_TIME"

\* No call to the calendar service has failed.
NoCallFailed(calls) == \A i \in 1..Len(calls) : calls[i].outcome # "fail"

\* C6 (as stated): every finished request that lacks the field its scope
\* needs has failed with that field's missing-field error, without any
\* events.patch or events.insert (even when every read it made succeeded
\* and the type of its event was detected).
C6_AlwaysMissingFieldError ==
    (/\ MissingScopeField(up) /\ up.pc = "done"
     /\ NoCallFailed(up.calls) /\ up.eventType # "none")
        => /\ up.result.err = MissingFieldError(up)
           /\ Mutating(up.calls) = <<>>

\* C6 (amended): a request that lacks the field its scope needs never
\* issues events.patch or events.insert, and once its event is detected as
\* recurring it has failed with that field's missing-field error.
C6_MissingFieldOnRecurring ==
    MissingScopeField(up)
        => /\ Mutating(up.calls) = <<>>
           /\ (up.eventType = "recurring"
                  => /\ up.pc = "done" /\ up.result.status = "error"
                     /\ up.result.err = MissingFieldError(up))

C6_Witness ==
    /\ up.scope = "thisAndFollowing" /\ up.futureStartDate = 0
    /\ up.eventType = "recurring"
    /\ up.result.err = "MISSING_FUTURE_DATE"

\* The events a List response owes to account a: those of its calendars
\* whose fetch did not fail.
OwedEvents(a) ==
    UNION {SeqToSet(TagAccount(TagCalendar(EventsOf(c), c), a)) :
              c \in {d \in SeqToSet(ls.map[a]) : <<a, d>> \notin ls.failed}}

\* C7: List over two or more accounts returns normally with the events of
\* every account whose fetch succeeded and exactly one partialFailures
\* entry per account whose fetch failed; with exactly one selected account
\* a failed fetch is raised and no response is returned.
C7_PartialFailurePerAccount ==
    ls.pc = "done" /\ ls.order # <<>>
        => IF Cardinality(ls.accounts) = 1
           THEN ls.threw # {} <=> ls.response.status = "error"
           ELSE /\ ls.response.status = "ok"
                /\ SeqToSet(ls.response.partialFailures) = ls.threw
                /\ Len(ls.response.partialFailures) = Cardinality(ls.threw)
                /\ \A a \in SeqToSet(ls.order) \ ls.threw :
                      OwedEvents(a) \subseteq SeqToSet(ls.response.events)

C7_Witness ==
    /\ ls.pc = "done" /\ Cardinality(ls.accounts) = 2
    /\ Cardinality(ls.threw) = 1
    /\ Len(ls.response.partialFailures) = 1
    /\ ls.response.status = "ok" /\ ls.response.events # <<>>

\* C8: every List response returned after the fetch of a targeted calendar
\* failed carries a warning or a partialFailures entry.
C8_DegradedResponseSaysSo ==
    (ls.pc = "done" /\ ls.response.status = "ok" /\ ls.failed # {})
        => (ls.response.warnings # <<>> \/ ls.response.partialFailures # <<>>)

SeSingleTarget == Len(se.order) = 1 /\ Len(se.map[se.order[1]]) = 1

InvalidCustomId(c) ==
    /\ c.idGiven
    /\ \/ Len(c.eventId) < MinIdLen
       \/ Len(c.eventId) > MaxIdLen
       \/ \E i \in 1..Len(c.eventId) : c.eventId[i] \notin ValidIdChars

MissingWorkingLocation(c) == c.eventType = "workingLocation" /\ ~c.wlProps

ValidationErrors ==
    {"InvalidEventId", "WorkingLocationPropertiesRequired", "PrimaryCalendarOnly"}

\* checkConflicts has returned its report to runTool.
DetectionReturned(c) ==
    LET lists == CallsOf(c.calls, "events.list")
    IN  lists # <<>> /\ lists[1].outcome = "ok"

Attendee(email, displayName, responseStatus) ==
    [email |-> email, displayName |-> displayName, responseStatus |-> responseStatus]

toLowerCase(email) ==
    CASE email = "A@x.com" -> "a@x.com"
      [] OTHER -> email

\* Map.get after the loop of Map.set: the last existing attendee that has
\* an email and whose lowercased email is the key; <<>> when there is none.
RECURSIVE existingByEmail(_, _)
existingByEmail(existingAttendees, key) ==
    IF existingAttendees = <<>> THEN <<>>
    ELSE LET n == Len(existingAttendees)
             attendee == existingAttendees[n]
         IN  IF attendee.email # "unset" /\ toLowerCase(attendee.email) = key
             THEN <<attendee>>
             ELSE existingByEmail(SubSeq(existingAttendees, 1, n - 1), key)

\* Faulty variant of mergeAttendees: emails are compared as written.
mergeAttendees_caseSensitive(existingAttendees, newAttendees) ==
    [i \in 1..Len(newAttendees) |->
        LET same == SelectSeq(existingAttendees,
                              LAMBDA a : a.email = newAttendees[i].email)
        IN  IF same # <<>> THEN same[Len(same)]
            ELSE Attendee(newAttendees[i].email, "unset", "unset")]

mergeAttendees(existingAttendees, newAttendees) ==
    [i \in 1..Len(newAttendees) |->
        LET existing == existingByEmail(existingAttendees,
                                        toLowerCase(newAttendees[i].email))
        IN  IF existing # <<>> THEN existing[1]
            ELSE Attendee(newAttendees[i].email, "unset", "unset")]

\* Attendees as the service stores them and as a caller supplies them.
ExistingAttendeePool ==
    {Attendee(e, "unset", r) :
        e \in {"a@x.com", "A@x.com", "b@x.com", "unset"},
        r \in {"accepted", "needsAction"}}

NewAttendeePool ==
    {Attendee(e, d, "unset") :
        e \in {"a@x.com", "A@x.com", "c@x.com"}, d \in {"unset", "Al"}}

SeqsUpTo(S, n) == UNION {[1..k -> S] : k \in 0..n}

MergeInit ==
    /\ cr = CrIdle
    /\ up = UpIdle
    /\ ls = LsIdle
    /\ se = SeIdle
    /\ sc = ScIdle
    /\ post = PostIdle
    /\ lib \in {[NoLibCall EXCEPT
                    !.args = [existingAttendees |-> ex, newAttendees |-> nw]] :
                    ex \in SeqsUpTo(ExistingAttendeePool, MaxAttendees),
                    nw \in SeqsUpTo(NewAttendeePool, MaxAttendees)}

MergeAttendees ==
    /\ lib.fn = "none"
    /\ lib' = [lib EXCEPT !.fn = "mergeAttendees",
                          !.out = mergeAttendees(lib.args.existingAttendees,
                                                 lib.args.newAttendees)]
    /\ UNCHANGED <<cr, up, ls, se, sc, post>>

MergeNext == MergeAttendees

MergeSpec == MergeInit /\ [][MergeNext]_vars


\* =================================================== getEventTypeDefaults
\* CreateEventHandler.getEventTypeDefaults applied to the arguments of a
\* Create request; "absent" is a field the caller did not supply.
TransparencyInputs == {"absent", "opaque", "transparent"}
VisibilityInputs == {"absent", "default", "public", "private", "confidential"}
EventTypeInputs == EventTypes \cup {"absent"}

\* Faulty variant: the defaults of the event type replace what the caller
\* supplied.
getEventTypeDefaults_overrides(args) ==
    CASE args.eventType \in {"focusTime", "outOfOffice"} ->
           [transparency |-> "opaque", visibility |-> args.visibility]
      [] args.eventType = "workingLocation" ->
           [transparency |-> "transparent", visibility |-> "public"]
      [] OTHER ->
           [transparency |-> args.transparency, visibility |-> args.visibility]

getEventTypeDefaults(args) ==
    CASE args.eventType \in {"focusTime", "outOfOffice"} ->
           [transparency |-> IF args.transparency = "absent" THEN "opaque"
                             ELSE args.transparency,
            visibility |-> args.visibility]
      [] args.eventType = "workingLocation" ->
           [transparency |-> IF args.transparency = "absent" THEN "transparent"
                             ELSE args.transparency,
            visibility |-> IF args.visibility = "absent" THEN "public"
                           ELSE args.visibility]
      [] OTHER ->
           [transparency |-> args.transparency, visibility |-> args.visibility]

DefaultsInit ==
    /\ cr = CrIdle
    /\ up = UpIdle
    /\ ls = LsIdle
    /\ se = SeIdle
    /\ sc = ScIdle
    /\ post = PostIdle
    /\ lib \in {[NoLibCall EXCEPT
                    !.args = [eventType |-> et, transparency |-> tr,
                              visibility |-> vi]] :
                    et \in EventTypeInputs, tr \in TransparencyInputs,
                    vi \in VisibilityInputs}

\* createEvent, lines 113-132: the defaults go into the request body.
GetEventTypeDefaults ==
    /\ lib.fn = "none"
    /\ lib' = [lib EXCEPT !.fn = "getEventTypeDefaults",
                          !.out = getEventTypeDefaults(lib.args)]
    /\ UNCHANGED <<cr, up, ls, se, sc, post>>

DefaultsNext == GetEventTypeDefaults

DefaultsSpec == DefaultsInit /\ [][DefaultsNext]_vars


\* ================================================== processBatchResponses
\* ListEventsHandler.processBatchResponses applied to the responses of a
\* batch of up to MaxCals requests.
ResponsePool(c) ==
    {BatchResponse(200, <<EventsOf(c)>>, <<>>),
     BatchResponse(200, <<<<>>>>, <<>>),
     BatchResponse(200, <<>>, <<>>),
     BatchResponse(404, <<>>, <<"Not Found">>),
     BatchResponse(500, <<>>, <<>>)}

BatchArgs ==
    UNION {{[responses |-> rs, calendarIds |-> cs] :
                rs \in {q \in [1..Len(cs) -> UNION {ResponsePool(c) : c \in Cals}] :
                           \A i \in 1..Len(cs) : q[i] \in ResponsePool(cs[i])}} :
           cs \in SeqsUpTo(Cals, MaxCals)}

BatchInit ==
    /\ cr = CrIdle
    /\ up = UpIdle
    /\ ls = LsIdle
    /\ se = SeIdle
    /\ sc = ScIdle
    /\ post = PostIdle
    /\ lib \in {[NoLibCall EXCEPT !.args = a] : a \in BatchArgs}

ProcessBatchResponses ==
    /\ lib.fn = "none"
    /\ lib' = [lib EXCEPT !.fn = "processBatchResponses",
                          !.out = processBatchResponses(lib.args.responses,
                                                        lib.args.calendarIds)]
    /\ UNCHANGED <<cr, up, ls, se, sc, post>>

BatchNext == ProcessBatchResponses

BatchSpec == BatchInit /\ [][BatchNext]_vars


\* ======================================================= roundToNearest15
\* Time-slot helper of the scheduler front end.  A Date is a day, an hour
\* of that day and a minute of that hour.
Days == 0..1
Hours == 0..23
MinutesOfHour == 0..59

\* Math.round(minutes / 15): the nearest integer, halves upwards.
MathRound15(minutes) == (2 * minutes + 15) \div 30

\* date-fns setMinutes with a value in 0..59: only the minute field changes.
setMinutes(date, minutes) == [date EXCEPT !.minute = minutes]

roundToNearest15(date) ==
    LET rounded == MathRound15(date.minute) * 15
    IN  setMinutes(date, IF rounded = 60 THEN 0 ELSE rounded)

RoundInit ==
    /\ cr = CrIdle
    /\ up = UpIdle
    /\ ls = LsIdle
    /\ se = SeIdle
    /\ sc = ScIdle
    /\ post = PostIdle
    /\ lib \in {[NoLibCall EXCEPT
                    !.args = [date |-> [day |-> d, hour |-> h, minute |-> m]]] :
                    d \in Days, h \in Hours, m \in MinutesOfHour}

RoundToNearest15 ==
    /\ lib.fn = "none"
    /\ lib' = [lib EXCEPT !.fn = "roundToNearest15",
                          !.out = roundToNearest15(lib.args.date)]
    /\ UNCHANGED <<cr, up, ls, se, sc, post>>

RoundNext == RoundToNearest15

RoundSpec == RoundInit /\ [][RoundNext]_vars


\* ======================================================== sanitizeEventId
\* Inputs: every string of up to MaxInputLen characters over InputChars,
\* and strings around the maximum id length.
InputChars == {"a", "9", "w", "W", "-", " "}

LongInputs ==
    {Repeat("a", MaxIdLen), Repeat("a", MaxIdLen + 1),
     Repeat("w", MaxIdLen + 1), <<"-">> \o Repeat("9", MaxIdLen + 2)}

SanitizeInputs == SeqsUpTo(InputChars, MaxInputLen) \cup LongInputs

\* Date.now() in base 32, most significant digit first: two instants of
\* November 2026, the second one millisecond after a carry.
Clocks ==
    <<<<1, 17, 8, 16, 20, 3, 31, 31, 31>>, <<1, 17, 8, 16, 20, 4, 0, 0, 0>>>>

SanitizeInit ==
    /\ cr = CrIdle
    /\ up = UpIdle
    /\ ls = LsIdle
    /\ se = SeIdle
    /\ sc = ScIdle
    /\ post = PostIdle
    /\ lib \in {[NoLibCall EXCEPT
                    !.args = [input |-> in, now1 |-> Clocks[i],
                              now2 |-> Clocks[j]]] :
                    in \in SanitizeInputs,
                    i \in 1..Len(Clocks), j \in 1..Len(Clocks)}
    /\ \E i, j \in 1..Len(Clocks) :
          i <= j /\ lib.args.now1 = Clocks[i] /\ lib.args.now2 = Clocks[j]

SanitizeEventId ==
    /\ lib.fn = "none"
    /\ lib' = [lib EXCEPT !.fn = "sanitizeEventId",
                          !.out = sanitizeEventId(lib.args.input, lib.args.now1,
                                                  lib.args.now2)]
    /\ UNCHANGED <<cr, up, ls, se, sc, post>>

SanitizeNext == SanitizeEventId

SanitizeSpec == SanitizeInit /\ [][SanitizeNext]_vars


\* ==================================================== scheduler front end
\* SchedulerProvider with the hooks useChat, useScheduler, useCommitEvents
\* and the ActionBar that calls them.  sendMessage is cut at the awaits of
\* its for-await loop; a mutation at the await of its mutationFn.

\* String.prototype.trim on a string given as its characters.
RECURSIVE TrimStart(_)
TrimStart(str) ==
    IF str # <<>> /\ Head(str) = " " THEN TrimStart(Tail(str)) ELSE str

Reverse(str) == [i \in 1..Len(str) |-> str[Len(str) + 1 - i]]

Trim(str) == Reverse(TrimStart(Reverse(TrimStart(str))))

\* What the user may type: nothing, a blank, text, text after a blank.
Contents == {<<>>, <<" ">>, <<"h", "i">>, <<" ", "h", "i">>}

EventIds == 1..2

\* What one chunk of the agent's answer may be: prose, a json block that
\* does not parse, one holding an array of no events, one of two events.
ChunkPool ==
    {Prose(<<"ok">>),
     Piece(<<"json">>, TRUE, "malformed", <<>>),
     Piece(<<"json">>, TRUE, "array", <<>>),
     Piece(<<"json">>, TRUE, "array",
           <<ProposedEvent(1, "proposed"), ProposedEvent(2, "proposed")>>)}

SorryText == Prose(<<"Sorry, something went wrong. Please try again.">>)

Null == [isNull |-> TRUE, events |-> <<>>]

\* content.match(/```json\n([\s\S]*?)\n```/): the first block, 0 if none.
FirstBlock(content) ==
    IF \A i \in 1..Len(content) : ~content[i].block THEN 0
    ELSE CHOOSE i \in 1..Len(content) :
            /\ content[i].block
            /\ \A j \in 1..(i - 1) : ~content[j].block

\* null without a block, when JSON.parse throws and when the parsed value
\* has no map; otherwise the parsed array.
parseProposedEvents(content) ==
    LET i == FirstBlock(content)
    IN  IF i = 0 THEN Null
        ELSE IF content[i].json # "array" THEN Null
        ELSE [isNull |-> FALSE, events |-> content[i].events]

Message(role, content) == [role |-> role, content |-> content]

addMessage(messages, message) == Append(messages, message)

updateLastMessage(messages, content) ==
    IF Len(messages) = 0 THEN messages
    ELSE [messages EXCEPT ![Len(messages)].content = content]

\* updates carries only a status here; the spread is followed by
\* status: 'user-adjusted'.
updateProposedEvent(proposedEvents, id, status) ==
    [i \in 1..Len(proposedEvents) |->
        IF proposedEvents[i].id = id
        THEN [[proposedEvents[i] EXCEPT !.status = status]
                 EXCEPT !.status = "user-adjusted"]
        ELSE proposedEvents[i]]

Did(op) == [NoLast EXCEPT !.op = op]

UiInit ==
    /\ cr = CrIdle
    /\ up = UpIdle
    /\ ls = LsIdle
    /\ se = SeIdle
    /\ lib = NoLibCall
    /\ sc = ScIdle
    /\ post = PostIdle

\* use-chat.ts line 27
SendRejected(content, isStreaming) == Trim(content) = <<>> \/ isStreaming

\* sendMessage up to the first await of the for-await loop.
SendMessage(content) ==
    /\ IF SendRejected(content, sc.isStreaming)
       THEN sc' = [sc EXCEPT !.last = [Did("sendMessage") EXCEPT
                                          !.blank = Trim(content) = <<>>]]
       ELSE \E k \in 1..MaxSends :
              /\ sc.sends[k].pc = "none"
              /\ \A j \in 1..(k - 1) : sc.sends[j].pc # "none"
              /\ sc' = [sc EXCEPT
                          !.messages =
                              addMessage(
                                  addMessage(@, Message("user",
                                                        <<Prose(Trim(content))>>)),
                                  Message("assistant", <<>>)),
                          !.isStreaming = TRUE,
                          !.status = "proposing",
                          !.sends[k] = [pc |-> "streaming", fullContent |-> <<>>],
                          !.last = [Did("sendMessage") EXCEPT
                                       !.id = k, !.passed = TRUE]]
    /\ UNCHANGED <<cr, up, ls, se, lib, post>>

\* One iteration of the for-await loop, lines 67-70.
StreamChunk(k, chunk) ==
    /\ sc.sends[k].pc = "streaming"
    /\ Len(sc.sends[k].fullContent) < MaxChunks
    /\ LET fullContent == Append(sc.sends[k].fullContent, chunk)
       IN  sc' = [sc EXCEPT
                     !.sends[k].fullContent = fullContent,
                     !.messages = updateLastMessage(@, fullContent),
                     !.last = [Did("chunk") EXCEPT !.id = k]]
    /\ UNCHANGED <<cr, up, ls, se, lib, post>>

\* Faulty variant: any parsed array, empty or not, counts as a proposal.
HasProposals_anyArray(proposedEvents) == ~proposedEvents.isNull

\* line 74: proposedEvents && proposedEvents.length > 0
HasProposals(proposedEvents) ==
    ~proposedEvents.isNull /\ Len(proposedEvents.events) > 0

\* The stream ends: lines 73-82, then the finally block.
StreamComplete(k) ==
    /\ sc.sends[k].pc = "streaming"
    /\ LET proposedEvents == parseProposedEvents(sc.sends[k].fullContent)
       IN  sc' = [sc EXCEPT
                     !.proposedEvents =
                         IF HasProposals(proposedEvents)
                         THEN proposedEvents.events ELSE @,
                     !.status =
                         IF HasProposals(proposedEvents)
                         THEN "adjusting" ELSE "idle",
                     !.isStreaming = FALSE,
                     !.sends[k] = [pc |-> "done", fullContent |-> <<>>],
                     !.last = [Did("sendFinished") EXCEPT
                                  !.id = k, !.outcome = "completed"]]
    /\ UNCHANGED <<cr, up, ls, se, lib, post>>

\* The fetch or a read of the stream throws: lines 83-91.
StreamError(k) ==
    /\ sc.sends[k].pc = "streaming"
    /\ sc' = [sc EXCEPT
                !.messages =
                    updateLastMessage(@,
                        IF sc.sends[k].fullContent # <<>>
                        THEN sc.sends[k].fullContent ELSE <<SorryText>>),
                !.status = "idle",
                !.isStreaming = FALSE,
                !.sends[k] = [pc |-> "done", fullContent |-> <<>>],
                !.last = [Did("sendFinished") EXCEPT
                             !.id = k, !.outcome = "error"]]
    /\ UNCHANGED <<cr, up, ls, se, lib, post>>

\* cancelStream: the abort controller is never set, so only the flag moves.
CancelStream ==
    /\ sc' = [sc EXCEPT !.isStreaming = FALSE, !.last = Did("cancelStream")]
    /\ UNCHANGED <<cr, up, ls, se, lib, post>>

LockEvent(id) ==
    /\ sc' = [sc EXCEPT
                !.proposedEvents = updateProposedEvent(@, id, "user-adjusted"),
                !.last = [Did("lockEvent") EXCEPT !.id = id]]
    /\ UNCHANGED <<cr, up, ls, se, lib, post>>

UnlockEvent(id) ==
    /\ sc' = [sc EXCEPT
                !.proposedEvents = updateProposedEvent(@, id, "proposed"),
                !.last = [Did("unlockEvent") EXCEPT !.id = id]]
    /\ UNCHANGED <<cr, up, ls, se, lib, post>>

uncommittedEvents(proposedEvents) ==
    SelectSeq(proposedEvents, LAMBDA e : e.status # "committed")

\* Faulty variant: a failed commit returns to 'idle'.
StatusOnError_idle == "idle"

\* useCommitEvents.onError
StatusOnError == "adjusting"

\* ActionBar.handleAccept behind its button, then onMutate.
HandleAccept ==
    /\ sc.status # "committing"
    /\ Len(uncommittedEvents(sc.proposedEvents)) > 0
    /\ sc.commits < MaxCommits
    /\ sc' = [sc EXCEPT !.status = "committing",
                        !.pending = @ + 1,
                        !.commits = @ + 1,
                        !.last = Did("commitStarted")]
    /\ UNCHANGED <<cr, up, ls, se, lib, post>>

\* useCommitEvents.onSuccess
CommitSuccess ==
    /\ sc.pending > 0
    /\ sc' = [sc EXCEPT !.proposedEvents = <<>>,
                        !.status = "idle",
                        !.pending = @ - 1,
                        !.last = [Did("commitSettled") EXCEPT
                                     !.outcome = "success"]]
    /\ UNCHANGED <<cr, up, ls, se, lib, post>>

CommitError ==
    /\ sc.pending > 0
    /\ sc' = [sc EXCEPT !.status = StatusOnError,
                        !.pending = @ - 1,
                        !.last = [Did("commitSettled") EXCEPT
                                     !.outcome = "error"]]
    /\ UNCHANGED <<cr, up, ls, se, lib, post>>

\* ActionBar.handleCancel behind its button: clearProposals.
HandleCancel ==
    /\ Len(sc.proposedEvents) > 0
    /\ sc.status # "committing"
    /\ sc' = [sc EXCEPT !.proposedEvents = <<>>,
                        !.status = "idle",
                        !.last = Did("clearProposals")]
    /\ UNCHANGED <<cr, up, ls, se, lib, post>>

StreamSettles == \E k \in 1..MaxSends : StreamComplete(k) \/ StreamError(k)

CommitSettles == CommitSuccess \/ CommitError

UiNext ==
    \/ \E content \in Contents : SendMessage(content)
    \/ \E k \in 1..MaxSends, chunk \in ChunkPool : StreamChunk(k, chunk)
    \/ \E k \in 1..MaxSends : StreamComplete(k)
    \/ \E k \in 1..MaxSends : StreamError(k)
    \/ CancelStream
    \/ \E id \in EventIds : LockEvent(id)
    \/ \E id \in EventIds : UnlockEvent(id)
    \/ HandleAccept
    \/ CommitSuccess
    \/ CommitError
    \/ HandleCancel

UiSpec == UiInit /\ [][UiNext]_vars

\* Every stream ends or throws, every mutation settles.
UiFairSpec ==
    UiSpec /\ WF_vars(StreamSettles) /\ WF_vars(CommitSettles)


\* ==================================================== POST /api/calendar
\* The route handler that commits proposed events, cut at its awaits:
\* request.json(), getServerSession, fetch, response.text(),
\* response.json().  An entry of created or errors carries in "of" the
\* position of the event it was pushed for.
PostTitles == {"standup", "review", "lunch"}

PostBodies == SeqsUpTo(PostTitles, MaxPostEvents)

PostRespond(p, status, created, errors) ==
    [p EXCEPT !.pc = "done",
              !.response = [status |-> status, created |-> created,
                            errors |-> errors]]

\* The for-of loop moves to the next event, or the handler returns
\* { created, errors } after the last one.
PostAdvance(p) ==
    IF p.index = Len(p.events)
    THEN PostRespond(p, 200, p.created, p.errors)
    ELSE [p EXCEPT !.pc = "fetch", !.index = @ + 1,
                   !.attempted = Append(@, p.index + 1)]

\* Faulty variant: the failure is logged but not reported.
PushError_logOnly(p) == p

\* errors.push(`Failed to create "${event.title}"`)
PushError(p) ==
    [p EXCEPT !.errors = Append(@, [of |-> p.index,
                                    text |-> <<"Failed to create",
                                               p.events[p.index]>>])]

PushCreated(p) ==
    [p EXCEPT !.created = Append(@, [of |-> p.index,
                                     title |-> p.events[p.index],
                                     source |-> "google"])]

PostInit ==
    /\ cr = CrIdle
    /\ up = UpIdle
    /\ ls = LsIdle
    /\ se = SeIdle
    /\ lib = NoLibCall
    /\ sc = ScIdle
    /\ post = PostIdle

\* request.json() has resolved; USE_MOCK_DATA picks the branch.
PostStart(events, mock) ==
    /\ post.pc = "idle"
    /\ post' = [post EXCEPT !.pc = IF mock THEN "mockDelay" ELSE "session",
                            !.mock = mock, !.events = events]
    /\ UNCHANGED <<cr, up, ls, se, lib, sc>>

PostMockDone ==
    /\ post.pc = "mockDelay"
    /\ post' = PostRespond(post, 200,
                           [i \in 1..Len(post.events) |->
                               [of |-> i, title |-> post.events[i],
                                source |-> "google"]],
                           <<>>)
    /\ UNCHANGED <<cr, up, ls, se, lib, sc>>

\* getServerSession: a session with an access token, none, or a throw
\* that the outer catch turns into 500.
PostSessionDone(session) ==
    /\ post.pc = "session"
    /\ LET p == [post EXCEPT !.session = session]
       IN  post' =
             CASE session = "threw" ->
                    PostRespond(p, 500, <<>>, <<"Server error">>)
               [] session = "none" ->
                    PostRespond(p, 401, <<>>, <<>>)
               [] OTHER -> PostAdvance(p)
    /\ UNCHANGED <<cr, up, ls, se, lib, sc>>

PostFetchDone(outcome) ==
    /\ post.pc = "fetch"
    /\ post' =
         CASE outcome = "ok" -> [post EXCEPT !.pc = "json"]
           [] outcome = "notOk" -> [post EXCEPT !.pc = "text"]
           [] OTHER -> PostAdvance(PushError(post))
    /\ UNCHANGED <<cr, up, ls, se, lib, sc>>

\* response.text() of a failed call: resolved or rejected, the event goes
\* to errors (line 170 or line 184).
PostTextDone(outcome) ==
    /\ post.pc = "text"
    /\ post' = PostAdvance(PushError(post))
    /\ UNCHANGED <<cr, up, ls, se, lib, sc>>

\* response.json(): the created event, a body without start (reading
\* start.dateTime throws), or a body that does not parse.
PostJsonDone(outcome) ==
    /\ post.pc = "json"
    /\ post' = IF outcome = "event" THEN PostAdvance(PushCreated(post))
               ELSE PostAdvance(PushError(post))
    /\ UNCHANGED <<cr, up, ls, se, lib, sc>>

PostNext ==
    \/ \E events \in PostBodies, mock \in BOOLEAN : PostStart(events, mock)
    \/ PostMockDone
    \/ \E session \in {"token", "none", "threw"} : PostSessionDone(session)
    \/ \E outcome \in {"ok", "notOk", "threw"} : PostFetchDone(outcome)
    \/ \E outcome \in {"ok", "threw"} : PostTextDone(outcome)
    \/ \E outcome \in {"event", "noStart", "threw"} : PostJsonDone(outcome)

PostSpec == PostInit /\ [][PostNext]_vars


\* ------------------------------------------- claims on thisAndFollowing
Duration(e) == e.end - e.start

E1 == lib.args.event1
E2 == lib.args.event2

MissingBoundary(e) == e.sKind = "none" \/ e.eKind = "none"
TimedInput(e) == e.sKind = "dateTime" /\ e.eKind = "dateTime"
AllDayInput(e) == e.sKind = "date" /\ e.eKind = "date"
HalfOpenOverlap(a, b) == a.start < b.end /\ b.start < a.end

IdenticalCopy(a, b) ==
    /\ a.summary # <<>> /\ a.summary = b.summary
    /\ ~MissingBoundary(a)
    /\ a.sKind = b.sKind /\ a.eKind = b.eKind
    /\ a.start = b.start /\ a.end = b.end

OneAllDayOneTimed(a, b) ==
    \/ AllDayInput(a) /\ TimedInput(b)
    \/ TimedInput(a) /\ AllDayInput(b)

\* C12: an all-day event compared with a timed one never scores above 0.2,
\* whatever the titles and the time ranges, and is not a duplicate at the
\* default threshold.
C12_MixedKindsScoreLow ==
    OneAllDayOneTimed(E1, E2)
        => /\ (lib.fn = "checkSimilarity" => lib.out <= 20)
           /\ (lib.fn = "isDuplicate" /\ lib.args.threshold = <<>>
                  => lib.out = FALSE)

C12_Witness ==
    /\ AllDayInput(E1) /\ TimedInput(E2)
    /\ E1.summary = E2.summary /\ E1.summary # <<>>
    /\ HalfOpenOverlap(E1, E2)
    /\ lib.fn = "checkSimilarity" /\ lib.out = 20

SameKind(a, b) ==
    \/ TimedInput(a) /\ TimedInput(b)
    \/ AllDayInput(a) /\ AllDayInput(b)

SameStartDay(a, b) == (a.start \div DayLen) = (b.start \div DayLen)

\* The decision table of C13, on the title class and the two time facts.
DecisionTable(exact, similar, overlap, sameDay) ==
    IF exact /\ overlap THEN 95
    ELSE IF similar /\ overlap THEN 70
    ELSE IF exact /\ sameDay THEN 60
    ELSE IF exact THEN 40
    ELSE IF similar THEN 30
    ELSE 10

\* C13: two timed events, or two all-day events, score exactly what the
\* decision table gives for their title class, their overlap and whether
\* they start on the same calendar day.
C13_ScoreIsDecisionTable ==
    (lib.fn = "checkSimilarity" /\ SameKind(E1, E2))
        => /\ lib.out = DecisionTable(titlesMatch(E1.summary, E2.summary).exact,
                                      titlesMatch(E1.summary, E2.summary).similar,
                                      HalfOpenOverlap(E1, E2), SameStartDay(E1, E2))
           /\ lib.out \in {95, 70, 60, 40, 30, 10}

C13_Witness ==
    /\ lib.fn = "checkSimilarity" /\ TimedInput(E1) /\ TimedInput(E2)
    /\ E1.summary = <<"Team", "Sync">> /\ E2.summary = <<"team", "sync">>
    /\ ~HalfOpenOverlap(E1, E2) /\ SameStartDay(E1, E2)
    /\ lib.out = 60

\* C14: isDuplicate is (score >= t) for every threshold t the caller
\* supplies, and (score >= 0.7) when none is supplied (stated for pairs of
\* titled, timed events, the pairs the handlers compare).
C14_DuplicateIffScoreReachesThreshold ==
    (/\ lib.fn = "isDuplicate"
     /\ TimedInput(E1) /\ TimedInput(E2)
     /\ E1.summary # <<>> /\ E2.summary # <<>>)
        => lib.out = (checkSimilarity(E1, E2) >=
                         (IF lib.args.threshold = <<>> THEN 70
                          ELSE lib.args.threshold[1]))

\* C15: two events that both have a start and an end overlap iff each
\* starts before the other ends; one ending when the other begins does not.
C15_OverlapIsHalfOpen ==
    (lib.fn = "eventsOverlap" /\ ~MissingBoundary(E1) /\ ~MissingBoundary(E2))
        => lib.out = HalfOpenOverlap(E1, E2)

C15_Witness ==
    /\ lib.fn = "eventsOverlap" /\ TimedInput(E1) /\ TimedInput(E2)
    /\ E1.end = E2.start
    /\ lib.out = FALSE

\* C16: for two timed events whose ranges overlap, eventsOverlap and
\* calculateOverlapDuration give the same result with the events
\* exchanged, and the overlap lasts no longer than the shorter event.
C16_OverlapSymmetricAndBounded ==
    (TimedInput(E1) /\ TimedInput(E2) /\ HalfOpenOverlap(E1, E2))
        => /\ (lib.fn = "eventsOverlap" => lib.out = lib.rev)
           /\ (lib.fn = "calculateOverlapDuration"
                  => /\ lib.out = lib.rev
                     /\ lib.out <= Duration(E1)
                     /\ lib.out <= Duration(E2))

C16_Witness ==
    /\ TimedInput(E1) /\ TimedInput(E2) /\ HalfOpenOverlap(E1, E2)
    /\ Duration(E1) > Duration(E2) /\ E2.end < E1.end
    /\ lib.fn = "calculateOverlapDuration"
    /\ lib.out = Duration(E2) /\ lib.rev = lib.out

\* C17 (as stated): when either event lacks its start or its end,
\* eventsOverlap is false, calculateOverlapDuration is 0, analyzeOverlap
\* reports no overlap and isDuplicate is false at the default and at any
\* supplied threshold.
C17_MissingBoundaryIsNoRelation ==
    (MissingBoundary(E1) \/ MissingBoundary(E2))
        => /\ (lib.fn = "eventsOverlap" => lib.out = FALSE)
           /\ (lib.fn = "calculateOverlapDuration" => lib.out = 0)
           /\ (lib.fn = "analyzeOverlap" => ~lib.out.hasOverlap)
           /\ (lib.fn = "isDuplicate" => lib.out = FALSE)

\* The threshold isDuplicate compares with: the caller's, or the default
\* when the caller gives none or gives zero.
ThresholdInEffect ==
    IF lib.args.threshold = <<>> \/ lib.args.threshold = <<0>> THEN 70
    ELSE lib.args.threshold[1]

\* C17 (amended): when either event lacks its start or its end,
\* eventsOverlap is false, calculateOverlapDuration is 0, analyzeOverlap
\* reports no overlap, and isDuplicate is false whenever the threshold in
\* effect is above 0.4 (the default is).
C17_MissingBoundaryNoOverlap ==
    (MissingBoundary(E1) \/ MissingBoundary(E2))
        => /\ (lib.fn = "eventsOverlap" => lib.out = FALSE)
           /\ (lib.fn = "calculateOverlapDuration" => lib.out = 0)
           /\ (lib.fn = "analyzeOverlap" => ~lib.out.hasOverlap)
           /\ (lib.fn = "isDuplicate" /\ ThresholdInEffect > 40
                  => lib.out = FALSE)

C17_Witness ==
    /\ E1.sKind = "dateTime" /\ E1.eKind = "none" /\ TimedInput(E2)
    /\ E1.summary = E2.summary /\ E1.summary # <<>>
    /\ lib.fn = "isDuplicate" /\ lib.args.threshold = <<41>>
    /\ lib.out = FALSE

\* C18: findOverlappingEvents returns, in the order of the list, exactly
\* the events that overlap the target, are not cancelled and do not carry
\* the target's id.
C18_FindOverlappingExact ==
    lib.fn = "findOverlappingEvents"
        => lib.out = SelectSeq(lib.args.events, LAMBDA e :
                        /\ ~MissingBoundary(e) /\ ~MissingBoundary(E1)
                        /\ HalfOpenOverlap(e, E1)
                        /\ e.status # "cancelled"
                        /\ e.id # E1.id)

C18_Witness ==
    /\ lib.fn = "findOverlappingEvents"
    /\ Len(lib.args.events) = 2 /\ Len(lib.out) = 1
    /\ lib.args.events[2].status = "cancelled"
    /\ lib.args.events[2].id # E1.id
    /\ ~MissingBoundary(E1) /\ ~MissingBoundary(lib.args.events[2])
    /\ HalfOpenOverlap(lib.args.events[2], E1)


\* ------------------------------------------------ claims on attendee merge
\* The existing entries whose email is the given one up to letter case.
Known(email) ==
    SelectSeq(lib.args.existingAttendees, LAMBDA a :
        a.email # "unset" /\ toLowerCase(a.email) = toLowerCase(email))

SuppliedFieldsKept(supplied, entry) ==
    /\ entry.email = supplied.email
    /\ supplied.displayName # "unset" => entry.displayName = supplied.displayName

\* C19 (as stated): the merged list has one entry per supplied attendee, in
\* order; a supplied attendee whose email is known gets an existing entry
\* of that email with all its fields, one with a new email gets an entry
\* carrying all the fields the caller supplied for it.
C19_MergeKeepsSuppliedFields ==
    lib.fn = "mergeAttendees"
        => /\ Len(lib.out) = Len(lib.args.newAttendees)
           /\ \A i \in 1..Len(lib.out) :
                  LET supplied == lib.args.newAttendees[i]
                  IN  IF Known(supplied.email) # <<>>
                      THEN lib.out[i] \in SeqToSet(Known(supplied.email))
                      ELSE SuppliedFieldsKept(supplied, lib.out[i])

\* C19 (amended): as above, but an attendee with a new email gets an entry
\* carrying the supplied email and nothing else.
C19_MergeKeepsEmailOnly ==
    lib.fn = "mergeAttendees"
        => /\ Len(lib.out) = Len(lib.args.newAttendees)
           /\ \A i \in 1..Len(lib.out) :
                  LET supplied == lib.args.newAttendees[i]
                  IN  IF Known(supplied.email) # <<>>
                      THEN lib.out[i] \in SeqToSet(Known(supplied.email))
                      ELSE lib.out[i] = Attendee(supplied.email, "unset", "unset")

C19_Witness ==
    /\ lib.fn = "mergeAttendees"
    /\ Len(lib.args.newAttendees) = 2 /\ Len(lib.out) = 2
    /\ lib.args.newAttendees[1] = Attendee("c@x.com", "Al", "unset")
    /\ lib.args.newAttendees[2].email = "A@x.com"
    /\ lib.out[1] = Attendee("c@x.com", "unset", "unset")
    /\ lib.out[2] = Attendee("a@x.com", "unset", "accepted")


\* ------------------------------------- claims on the List/Search fan-out
\* The accounts whose List branch raised, in the order of the routing map.
FailedInMapOrder == SelectSeq(ls.order, LAMBDA a : a \in ls.threw)

\* The calendars an account's Search branch searched successfully.
SearchedBy(a) == SelectSeq(se.map[a], LAMBDA c : <<a, c>> \notin se.failed)

\* The calendars an account's Search branch failed on.
SearchFailedBy(a) == SelectSeq(se.map[a], LAMBDA c : <<a, c>> \in se.failed)

\* What the Search branches collect when they settle one after the other
\* in the order of the routing map.
SearchedInMapOrder ==
    Flatten([i \in 1..Len(se.order) |-> SearchedBy(se.order[i])])

FoundInMapOrder ==
    Flatten([i \in 1..Len(se.order) |->
        LET a == se.order[i]
            cs == SearchedBy(a)
        IN  Flatten([j \in 1..Len(cs) |->
                TagAccount(TagCalendar(EventsOf(cs[j]), cs[j]), a)])])

SearchWarningsInMapOrder ==
    Flatten([i \in 1..Len(se.order) |->
        LET a == se.order[i]
            cs == SearchFailedBy(a)
        IN  [j \in 1..Len(cs) |-> Warning("searchFailed", cs[j], a)]])

\* C21: the response of a List or Search request is determined by the
\* request and the per-calendar outcomes of the service alone: whatever the
\* order in which the branches settle, it is the response obtained when
\* they settle in the order of the routing map.
C21_ResponseIndependentOfCompletionOrder ==
    /\ ls.response.status = "ok"
          => /\ ls.response.partialFailures = FailedInMapOrder
             /\ ls.response.warnings =
                    ls.resolutionWarnings \o
                    [i \in 1..Len(FailedInMapOrder) |->
                        Warning("accountFailed", 0, FailedInMapOrder[i])]
    /\ se.response.status = "ok"
          => /\ se.response.calendars = SearchedInMapOrder
             /\ se.response.events = sortEventsByStartTime(FoundInMapOrder)
             /\ \E n \in 0..Len(se.response.warnings) :
                    /\ SubSeq(se.response.warnings, n + 1,
                              Len(se.response.warnings)) = SearchWarningsInMapOrder
                    /\ \A i \in 1..n : se.response.warnings[i].kind = "unresolved"

\* The branches that have written to a collection shared by the fan-out.
PartialFailuresWriters == SeqToSet(ls.partialFailures)

AllEventsWriters == {se.allEvents[i].accountId : i \in 1..Len(se.allEvents)}

QueriedCalendarIdsWriters ==
    {a \in Accounts : \E i \in 1..Len(se.queriedCalendarIds) :
        se.queriedCalendarIds[i] \in SeqToSet(se.map[a])}

SearchWarningsWriters ==
    {se.resolutionWarnings[i].accountId : i \in
        {j \in 1..Len(se.resolutionWarnings) :
            se.resolutionWarnings[j].kind = "searchFailed"}}

\* C22: during the fan-out no collection is written by more than one
\* branch, and a response is built only when every branch has settled.
C22_BranchesWriteOwnSlotOnly ==
    /\ Cardinality(PartialFailuresWriters) <= 1
    /\ Cardinality(AllEventsWriters) <= 1
    /\ Cardinality(QueriedCalendarIdsWriters) <= 1
    /\ Cardinality(SearchWarningsWriters) <= 1
    /\ ls.response.status = "ok" => \A a \in Accounts : ls.branch[a] # "pending"
    /\ se.response.status = "ok" => \A a \in Accounts : se.pos[a] > Len(se.map[a])

\* What the single direct fetch of an account's only calendar gave.
SinglePathResult(a) ==
    [threw |-> a \in ls.threw,
     events |-> IF a \in ls.threw THEN <<>> ELSE ls.slot[a].events]

\* What the batch path gives for the same calendar and the same outcome
\* of the service.
BatchPathResult(a) ==
    LET c == ls.map[a][1]
        failing == IF <<a, c>> \in ls.failed THEN {c} ELSE {}
    IN  [threw |-> FALSE,
         events |-> TagAccount(fetchMultipleCalendarEvents(<<c>>, failing), a)]

\* C23: for a branch on exactly one calendar the single direct fetch gives
\* what the batch path gives for the same outcome of the service, whether
\* the calendar's fetch succeeds or fails.
C23_SinglePathEqualsBatchPath ==
    \A a \in Accounts :
        (ls.branch[a] = "done" /\ Len(ls.map[a]) = 1
            /\ ls.map[a][1] \in ls.access[a])
          => SinglePathResult(a) = BatchPathResult(a)

\* No selected account can access any of the requested calendars.
NothingResolves(selected, req, access) ==
    \A i \in 1..Len(req) : \A a \in selected : req[i] \notin access[a]

NoCalendarsResponse ==
    [NoResponse EXCEPT !.status = "error", !.err = "NoCalendarsFound"]

\* C24: a multi-account List, or a Search on several accounts or several
\* calendars, for which no calendar resolves on any account has failed with
\* the no-calendars error, without a response and without any event fetch.
C24_NoCalendarsIsAnError ==
    /\ (ls.pc # "idle" /\ Cardinality(ls.accounts) > 1
           /\ NothingResolves(ls.accounts, ls.req, ls.access))
          => /\ ls.pc = "done"
             /\ ls.response = NoCalendarsResponse
             /\ \A a \in Accounts : ls.branch[a] = "none" /\ ls.slot[a] = NoSlot
             /\ ls.failed = {} /\ ls.threw = {}
    /\ (se.pc # "idle" /\ (Cardinality(se.accounts) > 1 \/ Len(se.req) > 1)
           /\ NothingResolves(se.accounts, se.req, se.access))
          => /\ se.pc = "done"
             /\ se.response = NoCalendarsResponse
             /\ \A a \in Accounts : se.pos[a] = 1
             /\ se.allEvents = <<>> /\ se.queriedCalendarIds = <<>>
             /\ se.failed = {}

C24_Witness ==
    /\ ls.pc = "done"
    /\ ls.accounts = {1, 2} /\ ls.req = <<2, 1>>
    /\ ls.access[1] = {} /\ ls.access[2] = {}
    /\ ls.response.err = "NoCalendarsFound"

HeldOn(e) == e.id \div 10

\* The event names the account that fetched it and the calendar it is on.
CarriesOrigin(e, map) ==
    /\ e.accountId \in Accounts
    /\ e.calendarId = HeldOn(e)
    /\ e.calendarId \in SeqToSet(map[e.accountId])

FailedInserts(calls) ==
    SelectSeq(Inserts(calls), LAMBDA c : c.outcome = "fail")

\* C27: an events.insert rejected with error code 409 or with response
\* status 409 makes Create fail with the id-conflict message; any other
\* rejection makes it fail with the generic translation of the error; no
\* rejected insert ends in a response.
C27_InsertFailureTranslated ==
    /\ cr.insertOutcome \in {"code409", "status409"}
          => /\ cr.pc = "done" /\ cr.result.status = "error"
             /\ cr.result.err = "EventIdExists"
    /\ cr.insertOutcome = "fail"
          => /\ cr.pc = "done" /\ cr.result.status = "error"
             /\ cr.result.err = "GoogleApiError"
    /\ FailedInserts(cr.calls) # <<>>
          => cr.result.status = "error" /\ cr.insertOutcome \notin {"ok", "noData"}

C27_Witness ==
    /\ cr.pc = "done"
    /\ cr.insertOutcome = "code409"
    /\ cr.eventId = <<"a", "b", "c", "d", "e">>
    /\ FailedInserts(cr.calls) # <<>>
    /\ cr.result.err = "EventIdExists"

\* The identifiers under which a calendar is its account's primary calendar.
IsPrimaryCalendar(calendarId) == calendarId \in {"primary", "me@example.com"}

\* C28: a Create of an outOfOffice or workingLocation event on a calendar
\* that is not the account's primary calendar has failed with the
\* primary-calendar error before any call to the service.
C28_NonPrimaryRejected ==
    (/\ cr.pc # "idle"
     /\ cr.eventType \in {"outOfOffice", "workingLocation"}
     /\ ~IsPrimaryCalendar(cr.calendarId))
      => /\ cr.pc = "done"
         /\ cr.result.status = "error"
         /\ cr.result.err = "PrimaryCalendarOnly"
         /\ cr.calls = <<>>

\* C29: getEventTypeDefaults gives transparency opaque to focusTime and
\* outOfOffice and transparent to workingLocation when the caller supplies
\* none, visibility public to workingLocation when the caller supplies
\* none, and hands on whatever the caller supplies, for every event type.
C29_EventTypeDefaults ==
    lib.fn = "getEventTypeDefaults"
        => /\ (lib.args.transparency = "absent"
                  /\ lib.args.eventType \in {"focusTime", "outOfOffice"})
                 => lib.out.transparency = "opaque"
           /\ (lib.args.transparency = "absent"
                  /\ lib.args.eventType = "workingLocation")
                 => lib.out.transparency = "transparent"
           /\ (lib.args.visibility = "absent"
                  /\ lib.args.eventType = "workingLocation")
                 => lib.out.visibility = "public"
           /\ lib.args.transparency # "absent"
                 => lib.out.transparency = lib.args.transparency
           /\ lib.args.visibility # "absent"
                 => lib.out.visibility = lib.args.visibility

C29_Witness ==
    /\ lib.fn = "getEventTypeDefaults"
    /\ lib.args = [eventType |-> "workingLocation", transparency |-> "opaque",
                   visibility |-> "absent"]
    /\ lib.out = [transparency |-> "opaque", visibility |-> "public"]


\* ------------------------------------------------------ claims on Update
\* events.get is the first call of the request.
ExistingEventRead == Len(up.calls) > 0 /\ up.calls[1].api = "events.get"

ConflictChecks == CallsOf(up.calls, "events.list")

CheckRequested == up.checkConflicts # "false" /\ (up.start # 0 \/ up.end # 0)

\* C30: Update reads the existing event exactly when a conflict check is
\* requested (checkConflicts not false, start or end supplied) or attendees
\* are supplied; the conflict check runs only when requested, and always
\* once the existing event and the timezone are there; it never looks for
\* duplicates; conflicts it finds do not stop the update.
C30_UpdateReadsAndChecks ==
    up.pc # "idle"
        => /\ ExistingEventRead <=> (CheckRequested \/ up.attendeesGiven)
           /\ ConflictChecks # <<>> => CheckRequested
           /\ (CheckRequested /\ up.existingFetched /\ up.pc # "conflictTz")
                 => Len(ConflictChecks) = 1
           /\ up.conflictsChecked => ConflictChecks # <<>>
           /\ \A i \in 1..Len(ConflictChecks) : ~ConflictChecks[i].arg.checkDuplicates
           /\ up.result.duplicates = <<>>
           /\ up.conflictsFound
                 => /\ up.pc # "conflicts"
                    /\ up.calls[Len(up.calls)].api # "events.list"
                    /\ up.result.err \notin {"ConflictCheckFailed", "DuplicateEvent"}

C30_Witness ==
    /\ up.pc = "done"
    /\ up.checkConflicts = "absent" /\ up.start # 0 /\ ~up.attendeesGiven
    /\ ExistingEventRead
    /\ up.conflictsFound
    /\ up.result.status = "ok"
    /\ \E i \in 1..Len(up.calls) :
           up.calls[i].api = "events.patch" /\ up.calls[i].outcome = "ok"

Patches(calls) == CallsOf(calls, "events.patch")

\* C31: an Update without modificationScope behaves as one with scope
\* "all", whatever the type of the event: it never issues events.insert,
\* it patches nothing but the given event id, and once the type of the
\* event is detected it has issued exactly one events.patch, on that id.
C31_AbsentScopeIsAll ==
    up.scope \in {"absent", "all"}
        => /\ Inserts(up.calls) = <<>>
           /\ Len(Patches(up.calls)) <= 1
           /\ \A i \in 1..Len(Patches(up.calls)) :
                  Patches(up.calls)[i].target = "evt"
           /\ up.eventType # "none"
                 => /\ up.pc \in {"patch", "done"}
                    /\ Len(Patches(up.calls)) = 1
                    /\ up.result.err \notin {"NON_RECURRING_SCOPE",
                            "MISSING_ORIGINAL_TIME", "MISSING_FUTURE_DATE"}

C31_Witness ==
    /\ up.pc = "done"
    /\ up.scope = "absent"
    /\ up.kind = "singleton"
    /\ ~up.originalStartTime /\ up.futureStartDate = 0
    /\ up.result.status = "ok"
    /\ Len(Patches(up.calls)) = 1
    /\ Patches(up.calls)[1].target = "evt"
    /\ Patches(up.calls)[1].outcome = "ok"


\* ------------------------------------------- claims on merged responses
NonDecreasingStart(evs) ==
    \A i, j \in 1..Len(evs) : i < j => evs[i].start <= evs[j].start

\* C33: the events of every List and Search response are in
\* non-decreasing order of start time, and totalCount is their number.
C33_ResponseSortedAndCounted ==
    /\ ls.response.status = "ok"
          => /\ NonDecreasingStart(ls.response.events)
             /\ ls.response.totalCount = Len(ls.response.events)
    /\ se.response.status = "ok"
          => /\ NonDecreasingStart(se.response.events)
             /\ se.response.totalCount = Len(se.response.events)

C33_Witness ==
    /\ ls.response.status = "ok"
    /\ ls.order = <<1, 2>>
    /\ Len(ls.response.events) = 4
    /\ ls.response.events[1].accountId = 2
    /\ ls.response.events[2].accountId = 1
    /\ ls.response.totalCount = 4


\* ------------------------------------- claims on processBatchResponses
\* The indexes of a sequence, in order.
Indexes(q) == [i \in 1..Len(q) |-> i]

\* C32: there is a division of the responses into successes and failures,
\* a response without an event list being a failure, such that the events
\* returned are exactly the events of the successes, in the order of the
\* responses, each tagged with the calendar at its response's index, and
\* the errors returned are one entry per failure, in the order of the
\* responses, each naming the calendar at its response's index.
C32_ResponsesAttributedByIndex ==
    lib.fn = "processBatchResponses"
        => LET rs == lib.args.responses
               cs == lib.args.calendarIds
           IN  \E ok \in [1..Len(rs) -> BOOLEAN] :
                  LET failures == SelectSeq(Indexes(rs), LAMBDA i : ~ok[i])
                  IN  /\ \A i \in 1..Len(rs) : ok[i] => rs[i].items # <<>>
                      /\ lib.out.events =
                            Flatten([i \in 1..Len(rs) |->
                                IF ok[i] THEN TagCalendar(rs[i].items[1], cs[i])
                                ELSE <<>>])
                      /\ Len(lib.out.errors) = Len(failures)
                      /\ \A k \in 1..Len(failures) :
                            lib.out.errors[k].calendarId = cs[failures[k]]

C32_Witness ==
    /\ lib.fn = "processBatchResponses"
    /\ lib.args.calendarIds = <<2, 1>>
    /\ lib.args.responses[1] = BatchResponse(200, <<>>, <<>>)
    /\ lib.args.responses[2] = BatchResponse(200, <<EventsOf(1)>>, <<>>)
    /\ lib.out.events = TagCalendar(EventsOf(1), 1)
    /\ lib.out.errors = <<[calendarId |-> 2, error |-> <<"HTTP", "200">>]>>


\* ---------------------------------------- claims on similarity symmetry
FullyTimed(e) == e.sKind = "dateTime" /\ e.eKind = "dateTime"

\* C35: checkSimilarity gives the same score whichever of the two events
\* comes first, and so does isDuplicate for every threshold (stated for
\* timed events that have both a start and an end).
C35_SimilarityIsSymmetric ==
    (/\ lib.fn \in {"checkSimilarity", "isDuplicate"}
     /\ FullyTimed(lib.args.event1) /\ FullyTimed(lib.args.event2))
        => lib.out = lib.rev



\* ------------------------------------------- claims on roundToNearest15
MinutesSinceEpoch(date) == (date.day * 24 + date.hour) * 60 + date.minute

Distance(a, b) == IF a >= b THEN a - b ELSE b - a

\* C40: roundToNearest15 returns the quarter-hour boundary nearest to its
\* input: the minutes of the result are a multiple of 15 and the result is
\* at most 7 minutes away from the input.
C40_RoundsToNearestBoundary ==
    lib.fn = "roundToNearest15" =>
        /\ lib.out.minute % 15 = 0
        /\ Distance(MinutesSinceEpoch(lib.out),
                    MinutesSinceEpoch(lib.args.date)) <= 7


\* -------------------------------------------- claims on sanitizeEventId
\* C39: whatever the input, sanitizeEventId returns an id that
\* isValidEventId accepts, and an input that is already a valid id comes
\* back unchanged.
C39_SanitizedIdIsValid ==
    lib.fn = "sanitizeEventId" =>
        /\ isValidEventId(lib.out)
        /\ isValidEventId(lib.args.input) => lib.out = lib.args.input

\* An input with upper-case, shifted and removed characters that ends up
\* too short and is padded; and a valid id of maximum length, unchanged.
C39_Witness ==
    /\ lib.fn = "sanitizeEventId"
    /\ lib.args.input = <<"W", "-", "9">>
    /\ Len(lib.out) = 2 + Len(lib.args.now1)
    /\ SubSeq(lib.out, 1, 2) = <<"a", "9">>
    /\ isValidEventId(lib.out)


\* ------------------------------------- claims on the scheduler front end
\* C34: unlockEvent(id) leaves the proposed event with that id in status
\* 'proposed', lockEvent(id) leaves it 'user-adjusted', and neither
\* changes any other proposed event.
C34_LockAndUnlockSetStatus ==
    [][sc'.last.op \in {"lockEvent", "unlockEvent"} =>
          /\ Len(sc'.proposedEvents) = Len(sc.proposedEvents)
          /\ \A i \in 1..Len(sc.proposedEvents) :
                IF sc.proposedEvents[i].id = sc'.last.id
                THEN sc'.proposedEvents[i].status =
                         (IF sc'.last.op = "unlockEvent" THEN "proposed"
                          ELSE "user-adjusted")
                ELSE sc'.proposedEvents[i] = sc.proposedEvents[i]]_vars

Streaming == {k \in 1..MaxSends : sc.sends[k].pc = "streaming"}

NonEmptyList(parsed) == ~parsed.isNull /\ parsed.events # <<>>

\* A call of sendMessage with blank content or while isStreaming changes
\* nothing; any other call appends one user message and one empty
\* assistant message and starts one stream.
SendMessageStep ==
    sc'.last.op = "sendMessage" =>
        IF sc'.last.blank \/ sc.isStreaming
        THEN /\ ~sc'.last.passed
             /\ sc'.messages = sc.messages
             /\ sc'.sends = sc.sends
             /\ sc'.status = sc.status /\ sc'.isStreaming = sc.isStreaming
        ELSE /\ sc'.last.passed
             /\ Len(sc'.messages) = Len(sc.messages) + 2
             /\ SubSeq(sc'.messages, 1, Len(sc.messages)) = sc.messages
             /\ sc'.messages[Len(sc.messages) + 1].role = "user"
             /\ sc'.messages[Len(sc.messages) + 2] = Message("assistant", <<>>)
             /\ \E k \in 1..MaxSends :
                   /\ sc.sends[k].pc = "none"
                   /\ sc'.sends = [sc.sends EXCEPT
                                      ![k] = [pc |-> "streaming",
                                              fullContent |-> <<>>]]

\* When a call has finished isStreaming is false, and status is
\* 'adjusting' after a completed answer with a non-empty list of proposals
\* and 'idle' after any other answer and after an error.
SendFinishedStep ==
    sc'.last.op = "sendFinished" =>
        /\ ~sc'.isStreaming
        /\ sc'.status =
              IF /\ sc'.last.outcome = "completed"
                 /\ NonEmptyList(parseProposedEvents(
                                     sc.sends[sc'.last.id].fullContent))
              THEN "adjusting" ELSE "idle"

\* C36: sendMessage adds no message and starts no stream when the content
\* is blank or a stream is running; every other call appends exactly one
\* user message and one assistant placeholder; when the call has finished
\* isStreaming is false and status is 'adjusting' or 'idle' as the answer
\* had proposals or not; status is 'proposing' only while a call is in
\* flight and does not stay 'proposing'.
C36_SendMessageSettles ==
    /\ [][SendMessageStep /\ SendFinishedStep]_vars
    /\ [](sc.status = "proposing" => Streaming # {})
    /\ (sc.status = "proposing") ~> (sc.status # "proposing")

\* A second call, started after cancelStream while the first one was
\* still streaming, has completed with two proposals.
C36_Witness ==
    /\ sc.last.op = "sendFinished" /\ sc.last.outcome = "completed"
    /\ sc.last.id = 2
    /\ sc.sends[1].pc = "streaming"
    /\ sc.status = "adjusting" /\ ~sc.isStreaming
    /\ Len(sc.proposedEvents) = 2
    /\ Len(sc.messages) = 4

\* status is 'committing' once a commit has started; a successful commit
\* empties proposedEvents and returns to 'idle', a failed one returns to
\* 'adjusting' and leaves proposedEvents alone.
CommitStep ==
    /\ sc'.last.op = "commitStarted" => sc'.status = "committing"
    /\ (sc'.last.op = "commitSettled" /\ sc'.last.outcome = "success") =>
          sc'.proposedEvents = <<>> /\ sc'.status = "idle"
    /\ (sc'.last.op = "commitSettled" /\ sc'.last.outcome = "error") =>
          sc'.proposedEvents = sc.proposedEvents /\ sc'.status = "adjusting"

EntriesFor(i) ==
    Cardinality({j \in 1..Len(post.response.created) :
                    post.response.created[j].of = i})
    + Cardinality({j \in 1..Len(post.response.errors) :
                      post.response.errors[j].of = i})

RealCommitDone == post.pc = "done" /\ ~post.mock /\ post.session = "token"

\* C38: on the real path with a valid session, every event of the request
\* has exactly one entry in created or in errors,
\* created.length + errors.length is the number of events, every event
\* was attempted whatever happened to the ones before it, and the response
\* status is not an error status.
C38_EveryEventAccountedFor ==
    RealCommitDone =>
        /\ post.response.status = 200
        /\ \A i \in 1..Len(post.events) : EntriesFor(i) = 1
        /\ Len(post.response.created) + Len(post.response.errors)
              = Len(post.events)
        /\ post.attempted = [i \in 1..Len(post.events) |-> i]

\* Two events: the first one fails, the second one is created.
C38_Witness ==
    /\ RealCommitDone
    /\ Len(post.events) = 2
    /\ Len(post.response.errors) = 1 /\ post.response.errors[1].of = 1
    /\ Len(post.response.created) = 1 /\ post.response.created[1].of = 2

====
